---- MODULE Spec2Model ----
(***************************************************************************)
(* Verification model of iotexproject/Eliza-IoTeX.                         *)
(*                                                                         *)
(* The module holds one state machine per subsystem; each has its own      *)
(* specification over the shared variable tuple and leaves the variables   *)
(* of the other subsystems unchanged:                                      *)
(*   SpecMessage   the non-streaming /:agentId/message handler             *)
(*   SpecTwitter   the social-media interaction loop                       *)
(*   SpecRetry     the parsing-based generation helpers                    *)
(*   SpecDb        createMemory / createKnowledge of the sqlite adapter    *)
(*   SpecChain     createPrediction / placeBet / resolvePrediction         *)
(*   SpecGen         generateText / generateObject / generateTweetActions  *)
(*   SpecDaily       getDailyData of the chain statistics schema           *)
(*   SpecStream      the /:agentId/message-stream handler                  *)
(*   SpecRecommender getOrCreateRecommenderInBe                            *)
(*   SpecAdapter     the boolean mutations of the sqlite adapter           *)
(*   SpecTrim        trimTokens                                            *)
(*   SpecParse       truncateToCompleteSentence, parseShouldRespondFromText*)
(*   SpecGateway     the Cloudflare gateway base URL                       *)
(*   SpecMining      knowledge mining of the interaction loop              *)
(*   SpecThread      buildConversationThread                               *)
(*   SpecPred        createPrediction against the contract                 *)
(*   SpecOverlap     overlapping poll cycles                               *)
(*   SpecTurn        concurrent /:agentId/message requests                 *)
(***************************************************************************)
EXTENDS Integers, Sequences, FiniteSets, TLC

VARIABLES
    \* ---- /:agentId/message handler (client-direct/src/handlers/message.ts)
    hPc,        \* index into HandleStages of the statement about to run; 0 idle
    hAgent,     \* req.params.agentId of the request in flight
    hCallbacks, \* callbacks processActions has still to make
    sse,        \* events written to res, in order
    resEnded,   \* res.end() has been called
    hLog,       \* stages completed so far, in order
    hError,     \* message of the error caught by handleMessage, or NoError
    hEscaped,   \* an exception left handleMessage
    hTurns,     \* requests served so far
    \* ---- interaction loop (client-twitter/src/interactions.ts)
    tPc,        \* "idle", "loopHead", "body" or "persist"
    tIdx,       \* index into LoopBody of the statement about to run
    tSub,       \* position inside handleTweet
    cands,      \* uniqueTweetCandidates still to visit, in iteration order
    cur,        \* id of the candidate of the current iteration, 0 if none
    lastCheckedTweetId, \* client.lastCheckedTweetId, 0 when unset
    cachedMarker,       \* the last-processed id in the cache, 0 when unset
    tMemories,  \* post ids whose memory stringToUuid(id-agentId) is stored
    replies,    \* replies posted so far, per source post
    classified, \* should-respond classifications started, per source post
    handled,    \* posts for which handleTweet has returned
    effects,    \* per source post: what handleTweet did with its response
    isDryRun,   \* TWITTER_DRY_RUN
    cycles,     \* poll cycles started so far
    crashes,    \* process restarts so far
    \* ---- parsing-based generation helpers (core/src/parsing.ts)
    rHelper,    \* the helper being run
    rPc,        \* "idle", "attempt", "wait", "returned" or "thrown"
    rContextEmpty, \* the context argument is empty
    retryCount, \* retryCount
    retryDelay, \* retryDelay, in ms
    rAttempts,  \* calls of generateText made by this run
    rDelays,    \* the delays waited by this run, in order
    rRuns,      \* helper runs started so far
    \* ---- sqlite adapter (adapter-sqlite/src/index.ts)
    memories,   \* rows of the memories table
    knowledge,  \* rows of the knowledge table
    dbLast,     \* the last adapter call and how it ended
    dbPrev,     \* both tables as they were before the last call
    dbCalls,    \* adapter calls made so far
    \* ---- prediction contract helpers (plugin-depin/src/helpers/blockchain.ts)
    cOp,        \* the helper being run, "none" when idle
    cPc,        \* index into TxSteps(cOp) of the step about to run
    cSteps,     \* steps completed by this run, in order
    cIn,        \* requested amount and the contract values read by getBetAmount
    cBetAmount, \* betAmount returned by getBetAmount, -1 before
    cArgs,      \* bet amount passed to simulateContract, to encodeFunctionData
                \* and contained in the broadcast transaction, -1 before
    cOutcome,   \* "running", "returned" or "raised"
    cRuns,      \* helper runs started so far
    \* ---- structured generation (core/src/parsing.ts, second half)
    gEntry,     \* the function the caller invoked, "none" when idle
    gPc,        \* index into GenSteps of the statement about to run; 0 outside
    gContextEmpty, \* the context argument is the empty string
    gSettings,  \* getModelSettings finds settings for the provider
    gSteps,     \* statements of generateText / generateObject completed, in order
    gInner,     \* how generateText / generateObject ended: "running",
                \* "returned" or "raised"; "none" before
    gError,     \* message of the error it raised, or NoError
    gObject,    \* result.object of the provider call, NoObject before
    gOutcome,   \* how the invoked function ended, as seen by the caller
    gResult,    \* the value it returned, NoObject if none
    gRuns,      \* calls made so far
    \* ---- daily chain statistics (plugin-depin/src/schemas/iotexl1.ts)
    dPc,        \* "idle", "fetching", "returned" or "raised"
    dDate,      \* the date argument, in days from today
    dResults,   \* per metric key: Pending, or the FetchResult of safeFetch
    dStats,     \* the L1DailyStats returned, NoStats before
    dErrorLog,  \* metric keys passed to elizaLogger.error, in order
    dRuns,      \* calls of getDailyData so far
    \* ---- /:agentId/message-stream handler (client-direct/src/handlers/messageStream.ts)
    sPc,        \* index into StreamStages of the statement about to run; 0 idle
    sNow,       \* Date.now() when messageId is computed
    sMessages,  \* response.messages of the resolved stream, << >> before
    sMemories,  \* rows of the memories table
    sPending,   \* outbound rows whose createMemory call has not settled
    sIssued,    \* createMemory calls made for outbound memories
    sInboundId, \* id of the inbound memory this request stored, "" before
    sEvents,    \* what the handler wrote to res, in order
    sEnded,     \* the catch has called res.end()
    sFailures,  \* failures that have occurred during the request
    sUnhandled, \* promises that rejected with no handler attached
    \* ---- reputation backend helper (client-twitter/src/interactions.ts)
    bPc,        \* "idle", "attempt", "caught", "returned" or "raised"
    attempt,    \* the loop variable attempt
    bRequests,  \* fetch calls made by this run
    bWaits,     \* the delays slept by this run, in ms, in order
    bLog,       \* what this run logged, in order
    bResult,    \* the value returned, NoValue if none
    bRuns,      \* calls of the helper so far
    \* ---- sqlite adapter, boolean-returning mutations (adapter-sqlite/src/index.ts)
    accounts,      \* rows of the accounts table
    participants,  \* rows of the participants table
    relationships, \* rows of the relationships table
    cache,         \* rows of the cache table
    aNextId,       \* number of v4() ids drawn so far
    aLast,         \* the last mutation: its name, whether its statement
                   \* failed, and how the call ended
    aPrev,         \* the four tables as they were before the last mutation
    aCalls,        \* mutations called so far
    \* ---- token trimming (core/src/parsing.ts, first half)
    kPc,        \* "idle", "truncate", "returned" or "raised"
    kContext,   \* the context argument, a sequence of characters
    kMaxTokens, \* the maxTokens argument
    kTokenizer, \* the tokenizer the settings select: "tiktoken" or "auto"
    kFellBack,  \* the tokenizer threw and the catch block produced the result
    kResult,    \* the string returned
    \* ---- text parsing helpers (core/src/parsing.ts, first part)
    pOp,        \* the helper called last: "none", "truncate" or "parse"
    pText,      \* its text argument, a sequence of symbols
    pMaxLength, \* the maxLength argument of truncateToCompleteSentence
    pResult,    \* what truncateToCompleteSentence returned
    pVerdict,   \* what parseShouldRespondFromText returned
    \* ---- gateway routing (core/src/parsing.ts, getCloudflareGatewayBaseURL)
    gwSettings, \* CLOUDFLARE_GW_ENABLED, _AI_ACCOUNT_ID, _AI_GATEWAY_ID
    gwRequest,  \* the last provider request: kind, provider, baseURL
    \* ---- knowledge mining (client-twitter/src/interactions.ts, 229-445)
    mPc,        \* "idle", "batch", "posts" or "done"
    mScores,    \* relevanceScore in tenths of each valid post of the account
    mBatch,     \* i of the batch loop: index of the post before the batch
    mIdx,       \* the post of the batch about to be looked at
    mStored,    \* posts for which createKnowledge has resolved
    mFailed,    \* posts at which an analysis or a createKnowledge failed
    mLog,       \* what was logged as an error, in order
    \* ---- buildConversationThread (client-twitter/src/interactions.ts, 747-878)
    vPc,        \* "idle", "running", "returned" or "rejected"
    vParent,    \* inReplyToStatusId of every post, 0 when it is no reply
    vMaxReplies, \* the maxReplies argument
    vStack,     \* the calls of processThread in progress, outermost first
    vVisited,   \* visited
    vThread,    \* thread
    vStored,    \* posts for which createMemory was called
    \* ---- createPrediction against the prediction contract (blockchain.ts, 63-117)
    pdCount,    \* predictionCount of the contract
    pdCreator,  \* who created each prediction, the one of id 0 first
    pdPc,       \* where each call of createPrediction stands
    pdRead,     \* nextPredictionId of each call, as a set of at most one id
    pdAssigned, \* the id the contract gave to the prediction of each call
    pdResult,   \* the value each call resolved with
    \* ---- overlapping poll cycles (client-twitter/src/interactions.ts, 108-118)
    ovStarted,  \* how many times the timer has called handleTwitterInteractions
    ovPc,       \* where each cycle stands
    ovCands,    \* uniqueTweetCandidates of each cycle, from the current one on
    ovMarker,   \* client.lastCheckedTweetId, shared by the cycles
    ovMemories, \* source posts with a stored memory
    ovReplies,  \* replies sent to each source post
    \* ---- concurrent /:agentId/message requests (client-direct/src/handlers/message.ts)
    tnClock,     \* Date.now()
    tnPc,        \* where each request stands
    tnUser,      \* userId of each request
    tnMessageId, \* messageId of each request, "" before it is computed
    tnMemories   \* rows of the memories table

msgVars == <<hPc, hAgent, hCallbacks, sse, resEnded, hLog, hError, hEscaped, hTurns>>

twVars == <<tPc, tIdx, tSub, cands, cur, lastCheckedTweetId, cachedMarker,
            tMemories, replies, classified, handled, effects, isDryRun, cycles,
            crashes>>

retryVars == <<rHelper, rPc, rContextEmpty, retryCount, retryDelay, rAttempts,
               rDelays, rRuns>>

dbVars == <<memories, knowledge, dbLast, dbPrev, dbCalls>>

chainVars == <<cOp, cPc, cSteps, cIn, cBetAmount, cArgs, cOutcome, cRuns>>

genVars == <<gEntry, gPc, gContextEmpty, gSettings, gSteps, gInner, gError,
             gObject, gOutcome, gResult, gRuns>>

dailyVars == <<dPc, dDate, dResults, dStats, dErrorLog, dRuns>>

streamVars == <<sPc, sNow, sMessages, sMemories, sPending, sIssued,
                sInboundId, sEvents, sEnded, sFailures, sUnhandled>>

recVars == <<bPc, attempt, bRequests, bWaits, bLog, bResult, bRuns>>

adpVars == <<accounts, participants, relationships, cache, aNextId, aLast,
             aPrev, aCalls>>

trimVars == <<kPc, kContext, kMaxTokens, kTokenizer, kFellBack, kResult>>

parseVars == <<pOp, pText, pMaxLength, pResult, pVerdict>>

gwVars == <<gwSettings, gwRequest>>

miningVars == <<mPc, mScores, mBatch, mIdx, mStored, mFailed, mLog>>

threadVars == <<vPc, vParent, vMaxReplies, vStack, vVisited, vThread,
                vStored>>

predVars == <<pdCount, pdCreator, pdPc, pdRead, pdAssigned, pdResult>>

overlapVars == <<ovStarted, ovPc, ovCands, ovMarker, ovMemories, ovReplies>>

turnVars == <<tnClock, tnPc, tnUser, tnMessageId, tnMemories>>

vars == <<msgVars, twVars, retryVars, dbVars, chainVars, genVars, dailyVars,
          streamVars, recVars, adpVars, trimVars, parseVars, gwVars,
          miningVars, threadVars, predVars, overlapVars, turnVars>>

notMsgVars == <<twVars, retryVars, dbVars, chainVars, genVars, dailyVars,
                streamVars, recVars, adpVars, trimVars, parseVars, gwVars,
                miningVars, threadVars, predVars, overlapVars, turnVars>>
notTwVars == <<msgVars, retryVars, dbVars, chainVars, genVars, dailyVars,
               streamVars, recVars, adpVars, trimVars, parseVars, gwVars,
               miningVars, threadVars, predVars, overlapVars, turnVars>>
notRetryVars == <<msgVars, twVars, dbVars, chainVars, genVars, dailyVars,
                  streamVars, recVars, adpVars, trimVars, parseVars, gwVars,
                  miningVars, threadVars, predVars, overlapVars, turnVars>>
notDbVars == <<msgVars, twVars, retryVars, chainVars, genVars, dailyVars,
               streamVars, recVars, adpVars, trimVars, parseVars, gwVars,
               miningVars, threadVars, predVars, overlapVars, turnVars>>
notChainVars == <<msgVars, twVars, retryVars, dbVars, genVars, dailyVars,
                  streamVars, recVars, adpVars, trimVars, parseVars, gwVars,
                  miningVars, threadVars, predVars, overlapVars, turnVars>>
notGenVars == <<msgVars, twVars, retryVars, dbVars, chainVars, dailyVars,
                streamVars, recVars, adpVars, trimVars, parseVars, gwVars,
                miningVars, threadVars, predVars, overlapVars, turnVars>>
notDailyVars == <<msgVars, twVars, retryVars, dbVars, chainVars, genVars,
                  streamVars, recVars, adpVars, trimVars, parseVars, gwVars,
                  miningVars, threadVars, predVars, overlapVars, turnVars>>
notStreamVars == <<msgVars, twVars, retryVars, dbVars, chainVars, genVars,
                   dailyVars, recVars, adpVars, trimVars, parseVars, gwVars,
                   miningVars, threadVars, predVars, overlapVars, turnVars>>
notRecVars == <<msgVars, twVars, retryVars, dbVars, chainVars, genVars,
                dailyVars, streamVars, adpVars, trimVars, parseVars, gwVars,
                miningVars, threadVars, predVars, overlapVars, turnVars>>
notAdpVars == <<msgVars, twVars, retryVars, dbVars, chainVars, genVars,
                dailyVars, streamVars, recVars, trimVars, parseVars, gwVars,
                miningVars, threadVars, predVars, overlapVars, turnVars>>
notTrimVars == <<msgVars, twVars, retryVars, dbVars, chainVars, genVars,
                 dailyVars, streamVars, recVars, adpVars, parseVars, gwVars,
                 miningVars, threadVars, predVars, overlapVars, turnVars>>
notParseVars == <<msgVars, twVars, retryVars, dbVars, chainVars, genVars,
                  dailyVars, streamVars, recVars, adpVars, trimVars, gwVars,
                  miningVars, threadVars, predVars, overlapVars, turnVars>>
notGwVars == <<msgVars, twVars, retryVars, dbVars, chainVars, genVars,
               dailyVars, streamVars, recVars, adpVars, trimVars, parseVars,
               miningVars, threadVars, predVars, overlapVars, turnVars>>
notMiningVars == <<msgVars, twVars, retryVars, dbVars, chainVars, genVars,
                   dailyVars, streamVars, recVars, adpVars, trimVars,
                   parseVars, gwVars, threadVars, predVars, overlapVars,
                   turnVars>>
notThreadVars == <<msgVars, twVars, retryVars, dbVars, chainVars, genVars,
                   dailyVars, streamVars, recVars, adpVars, trimVars,
                   parseVars, gwVars, miningVars, predVars, overlapVars,
                   turnVars>>
notPredVars == <<msgVars, twVars, retryVars, dbVars, chainVars, genVars,
                 dailyVars, streamVars, recVars, adpVars, trimVars,
                 parseVars, gwVars, miningVars, threadVars, overlapVars,
                 turnVars>>
notOverlapVars == <<msgVars, twVars, retryVars, dbVars, chainVars, genVars,
                    dailyVars, streamVars, recVars, adpVars, trimVars,
                    parseVars, gwVars, miningVars, threadVars, predVars,
                    turnVars>>
notTurnVars == <<msgVars, twVars, retryVars, dbVars, chainVars, genVars,
                 dailyVars, streamVars, recVars, adpVars, trimVars,
                 parseVars, gwVars, miningVars, threadVars, predVars,
                 overlapVars>>

\* ------------------------------------------------------------------------
\* Bounds
\* ------------------------------------------------------------------------
MaxCallbacks == 2
MaxTurns == 2
MaxCycles == 3
MaxCrashes == 1
MaxRuns == 3
MaxDbCalls == 3
MaxTxRuns == 2
MaxWei == 3
MaxGenRuns == 2
MaxDailyRuns == 1
MaxNow == 2
MaxMessages == 2
MaxParts == 2
MaxRecommenderRuns == 3
MaxAdapterCalls == 3
MaxContextLen == 5
MaxBudget == 2
MaxTextLen == 6
MaxLimit == 6
MaxReplyLen == 4
MaxKnowledgePosts == 6
MaxThreadPosts == 3
MaxReplies == 2
MaxOverlappingCalls == 2
MaxPredictions == 3
MaxPollCycles == 2
MaxSourcePosts == 2
MaxRequests == 2
MaxClock == 2

\* ------------------------------------------------------------------------
\* Generic helpers
\* ------------------------------------------------------------------------
IsPrefix(s, t) == /\ Len(s) <= Len(t)
                  /\ \A i \in 1..Len(s) : s[i] = t[i]

Positions(s, x) == {i \in 1..Len(s) : s[i] = x}

Range(s) == {s[i] : i \in 1..Len(s)}

NoError == "none"

\* ========================================================================
\* /:agentId/message
\* ========================================================================
RegisteredAgents == {"agent"}
RequestAgentIds == {"agent", "non-existent-agent"}

\* The statements of handle(), in program order.
HandleStagesDataAfterOutbound ==
    << "getRuntime", "ensureConnection", "composeContent",
       "createInboundMemory", "composeState", "genResponse",
       "createOutboundMemory", "writeResponse",
       "updateRecentMessageState", "processActions", "evaluate",
       "writeEnd" >>

HandleStages ==
    << "getRuntime", "ensureConnection", "composeContent",
       "createInboundMemory", "composeState", "genResponse",
       "writeResponse", "createOutboundMemory",
       "updateRecentMessageState", "processActions", "evaluate",
       "writeEnd" >>

\* Stages that await a runtime service and can therefore reject.
AwaitedStages == { "ensureConnection", "composeContent", "createInboundMemory",
                   "composeState", "genResponse", "createOutboundMemory",
                   "updateRecentMessageState", "processActions", "evaluate" }

StageError(stage) == IF stage = "getRuntime" THEN "Agent not found"
                     ELSE "failed: " \o stage

DataEvent(src) == [type |-> "data", data |-> src]
EndEvent == [type |-> "end", data |-> "stream completed"]
ErrorEvent(msg) == [type |-> "error", data |-> msg]

\* What the catch block of handleMessage writes to res.
CatchWritesErrorThenEnd(msg) == << ErrorEvent(msg), EndEvent >>

CatchWrites(msg) == << ErrorEvent(msg) >>

CurStage == HandleStages[hPc]

InitMessage ==
    /\ hPc = 0
    /\ hAgent = "agent"
    /\ hCallbacks = 0
    /\ sse = << >>
    /\ resEnded = FALSE
    /\ hLog = << >>
    /\ hError = NoError
    /\ hEscaped = FALSE
    /\ hTurns = 0

\* A request arrives: handleMessage sets the SSE headers and calls handle().
HandleMessage ==
    /\ hPc = 0
    /\ hTurns < MaxTurns
    /\ \E a \in RequestAgentIds, n \in 0..MaxCallbacks :
          /\ hAgent' = a
          /\ hCallbacks' = n
    /\ hPc' = 1
    /\ sse' = << >>
    /\ resEnded' = FALSE
    /\ hLog' = << >>
    /\ hError' = NoError
    /\ hTurns' = hTurns + 1
    /\ UNCHANGED hEscaped
    /\ UNCHANGED notMsgVars

\* The try block of handleMessage encloses the whole call of handle().
InsideTry(stage) == stage \in Range(HandleStages)

\* handle() throws at the current stage; the catch of handleMessage runs.
HandleCatch(msg) ==
    /\ hError' = msg
    /\ hPc' = Len(HandleStages) + 1
    /\ IF InsideTry(CurStage)
       THEN /\ sse' = sse \o CatchWrites(msg)
            /\ resEnded' = TRUE
            /\ UNCHANGED hEscaped
       ELSE /\ hEscaped' = TRUE
            /\ UNCHANGED <<sse, resEnded>>
    /\ UNCHANGED <<hAgent, hCallbacks, hLog, hTurns>>

\* directClient.getRuntime(req.params.agentId)
GetRuntime ==
    /\ hPc \in 1..Len(HandleStages)
    /\ CurStage = "getRuntime"
    /\ IF hAgent \in RegisteredAgents
       THEN /\ hPc' = hPc + 1
            /\ hLog' = Append(hLog, CurStage)
            /\ UNCHANGED <<hAgent, hCallbacks, sse, resEnded, hError, hEscaped, hTurns>>
       ELSE HandleCatch(StageError(CurStage))
    /\ UNCHANGED notMsgVars

\* An awaited runtime call other than processActions resolves.
AwaitResolves ==
    /\ hPc \in 1..Len(HandleStages)
    /\ CurStage \in AwaitedStages \ {"processActions"}
    /\ hPc' = hPc + 1
    /\ hLog' = Append(hLog, CurStage)
    /\ UNCHANGED <<hAgent, hCallbacks, sse, resEnded, hError, hEscaped, hTurns>>
    /\ UNCHANGED notMsgVars

\* An awaited runtime call rejects.
AwaitRejects ==
    /\ hPc \in 1..Len(HandleStages)
    /\ CurStage \in AwaitedStages
    /\ HandleCatch(StageError(CurStage))
    /\ UNCHANGED notMsgVars

\* res.write of the generated reply.
WriteResponse ==
    /\ hPc \in 1..Len(HandleStages)
    /\ CurStage = "writeResponse"
    /\ sse' = Append(sse, DataEvent("response"))
    /\ hPc' = hPc + 1
    /\ hLog' = Append(hLog, CurStage)
    /\ UNCHANGED <<hAgent, hCallbacks, resEnded, hError, hEscaped, hTurns>>
    /\ UNCHANGED notMsgVars

\* An action handler invokes the callback passed to processActions.
ActionCallback ==
    /\ hPc \in 1..Len(HandleStages)
    /\ CurStage = "processActions"
    /\ hCallbacks > 0
    /\ hCallbacks' = hCallbacks - 1
    /\ \E content \in BOOLEAN :
          IF content
          THEN /\ sse' = Append(sse, DataEvent("callback"))
               /\ hLog' = Append(hLog, "callbackData")
          ELSE UNCHANGED <<sse, hLog>>
    /\ UNCHANGED <<hPc, hAgent, resEnded, hError, hEscaped, hTurns>>
    /\ UNCHANGED notMsgVars

\* processActions resolves once every handler has run.
ProcessActionsResolves ==
    /\ hPc \in 1..Len(HandleStages)
    /\ CurStage = "processActions"
    /\ hCallbacks = 0
    /\ hPc' = hPc + 1
    /\ hLog' = Append(hLog, CurStage)
    /\ UNCHANGED <<hAgent, hCallbacks, sse, resEnded, hError, hEscaped, hTurns>>
    /\ UNCHANGED notMsgVars

\* res.write of the end event and res.end().
WriteEnd ==
    /\ hPc \in 1..Len(HandleStages)
    /\ CurStage = "writeEnd"
    /\ sse' = Append(sse, EndEvent)
    /\ resEnded' = TRUE
    /\ hPc' = hPc + 1
    /\ hLog' = Append(hLog, CurStage)
    /\ UNCHANGED <<hAgent, hCallbacks, hError, hEscaped, hTurns>>
    /\ UNCHANGED notMsgVars

\* handleMessage returns; the next request can be served.
HandleReturns ==
    /\ hPc = Len(HandleStages) + 1
    /\ hPc' = 0
    /\ UNCHANGED <<hAgent, hCallbacks, sse, resEnded, hLog, hError, hEscaped, hTurns>>
    /\ UNCHANGED notMsgVars

NextMessage ==
    \/ HandleMessage
    \/ GetRuntime
    \/ AwaitResolves
    \/ AwaitRejects
    \/ WriteResponse
    \/ ActionCallback
    \/ ProcessActionsResolves
    \/ WriteEnd
    \/ HandleReturns


\* ========================================================================
\* Interaction loop
\* ========================================================================
\* The posts the platform can return: id 8 has no text, id 11 is the agent's.
TweetIds == {8, 9, 10, 11}
AgentTweets == {11}
TextlessTweets == {8}
\* Posts of the configured target users.
TargetTweets == {10}

RECURSIVE DigitsOf(_)
\* tweet.id is a decimal string.
DigitsOf(n) == IF n < 10 THEN << n >> ELSE Append(DigitsOf(n \div 10), n % 10)

RECURSIVE StrLess(_, _)
StrLess(a, b) ==
    IF b = << >> THEN FALSE
    ELSE IF a = << >> THEN TRUE
    ELSE IF a[1] # b[1] THEN a[1] < b[1]
    ELSE StrLess(Tail(a), Tail(b))

\* a.id.localeCompare(b.id) < 0
LocaleCompareLess(a, b) == StrLess(DigitsOf(a), DigitsOf(b))

RECURSIVE SetToSeq(_)
SetToSeq(S) == IF S = {} THEN << >>
               ELSE LET x == CHOOSE y \in S : TRUE
                    IN  << x >> \o SetToSeq(S \ {x})

\* uniqueTweetCandidates.sort(...).filter(...): the array is sorted in place
\* and the filtered copy is dropped.
SortCandidates(list) == SortSeq(list, LocaleCompareLess)

\* The statements of the body of the candidate loop, in program order.
LoopBodyAdvanceFirst ==
    << "getMemoryById", "ensureConnection", "buildConversationThread",
       "setLastChecked", "handleTweet" >>

LoopBody ==
    << "getMemoryById", "ensureConnection", "buildConversationThread",
       "handleTweet", "setLastChecked" >>

TStage == LoopBody[tIdx]

\* !this.client.lastCheckedTweetId || BigInt(tweet.id) > lastCheckedTweetId
NewerThanMarker(id) == lastCheckedTweetId = 0 \/ id > lastCheckedTweetId

ExistingResponseNever(id) == FALSE

\* existingResponse: getMemoryById(stringToUuid(tweet.id + "-" + agentId))
ExistingResponse(id) == id \in tMemories

ResponseBranchAlwaysSend(dry) == "send"

\* if (this.isDryRun) log only, else send.
ResponseBranch(dry) == IF dry THEN "log" ELSE "send"

\* What the try block does after the reply is posted, in program order.
AfterSendEffects == <<"outboundMemory", "postActions", "transcript">>

InitTwitter ==
    /\ tPc = "idle"
    /\ tIdx = 0
    /\ tSub = "none"
    /\ cands = << >>
    /\ cur = 0
    /\ lastCheckedTweetId = 0
    /\ cachedMarker = 0
    /\ tMemories = {}
    /\ replies = [id \in TweetIds |-> 0]
    /\ classified = [id \in TweetIds |-> 0]
    /\ handled = {}
    /\ effects = [id \in TweetIds |-> {}]
    /\ isDryRun \in BOOLEAN
    /\ cycles = 0
    /\ crashes = 0

\* The catch of handleTwitterInteractions: the cycle ends, nothing is cached.
CycleCatch ==
    /\ tPc' = "idle"
    /\ tIdx' = 0
    /\ tSub' = "none"
    /\ cands' = << >>
    /\ cur' = 0

\* The statement at tIdx is done: go to the next one, or to the next candidate.
StageDone ==
    IF tIdx = Len(LoopBody)
    THEN /\ tPc' = "loopHead"
         /\ tIdx' = 0
         /\ cands' = Tail(cands)
         /\ cur' = 0
    ELSE /\ tIdx' = tIdx + 1
         /\ UNCHANGED <<tPc, cands, cur>>

\* handleTwitterInteractions is called: mentions and the sampled posts of the
\* target users are fetched and sorted.
StartCycle ==
    /\ tPc = "idle"
    /\ cycles < MaxCycles
    /\ cycles' = cycles + 1
    /\ \E fetched \in BOOLEAN :
          IF fetched
          THEN \E M \in SUBSET TweetIds,
                  T \in SUBSET {t \in TargetTweets : NewerThanMarker(t)} :
                  /\ cands' = SortCandidates(SetToSeq(M) \o SetToSeq(T))
                  /\ tPc' = "loopHead"
          ELSE UNCHANGED <<tPc, cands>>
    /\ UNCHANGED <<tIdx, tSub, cur, lastCheckedTweetId, cachedMarker, tMemories,
                   replies, classified, handled, effects, isDryRun, crashes>>
    /\ UNCHANGED notTwVars

\* for (const tweet of uniqueTweetCandidates) and the test on the marker.
LoopHead ==
    /\ tPc = "loopHead"
    /\ IF cands = << >>
       THEN /\ tPc' = "persist"
            /\ UNCHANGED <<tIdx, cands, cur>>
       ELSE IF NewerThanMarker(Head(cands))
       THEN /\ tPc' = "body"
            /\ tIdx' = 1
            /\ cur' = Head(cands)
            /\ UNCHANGED cands
       ELSE /\ cands' = Tail(cands)
            /\ UNCHANGED <<tPc, tIdx, cur>>
    /\ UNCHANGED <<tSub, lastCheckedTweetId, cachedMarker, tMemories, replies,
                   classified, handled, effects, isDryRun, cycles, crashes>>
    /\ UNCHANGED notTwVars

\* The lookup of the candidate's memory; a hit skips the candidate.
GetMemoryById ==
    /\ tPc = "body"
    /\ TStage = "getMemoryById"
    /\ IF ExistingResponse(cur)
       THEN /\ tPc' = "loopHead"
            /\ tIdx' = 0
            /\ cands' = Tail(cands)
            /\ cur' = 0
       ELSE StageDone
    /\ UNCHANGED <<tSub, lastCheckedTweetId, cachedMarker, tMemories, replies,
                   classified, handled, effects, isDryRun, cycles, crashes>>
    /\ UNCHANGED notTwVars

\* runtime.ensureConnection resolves.
EnsureConnection ==
    /\ tPc = "body"
    /\ TStage = "ensureConnection"
    /\ StageDone
    /\ UNCHANGED <<tSub, lastCheckedTweetId, cachedMarker, tMemories, replies,
                   classified, handled, effects, isDryRun, cycles, crashes>>
    /\ UNCHANGED notTwVars

\* buildConversationThread(tweet, client) resolves: the posts of the thread,
\* the candidate first, have been stored as memories.
BuildConversationThread ==
    /\ tPc = "body"
    /\ TStage = "buildConversationThread"
    /\ tMemories' = tMemories \cup {cur}
    /\ StageDone
    /\ UNCHANGED <<tSub, lastCheckedTweetId, cachedMarker, replies,
                   classified, handled, effects, isDryRun, cycles, crashes>>
    /\ UNCHANGED notTwVars

\* An awaited call of the loop body rejects; buildConversationThread may have
\* stored the candidate's memory before it does.
BodyRejects ==
    /\ tPc = "body"
    /\ TStage \in {"getMemoryById", "ensureConnection", "buildConversationThread"}
    /\ \E stored \in BOOLEAN :
          tMemories' = IF stored /\ TStage = "buildConversationThread"
                       THEN tMemories \cup {cur} ELSE tMemories
    /\ CycleCatch
    /\ UNCHANGED <<lastCheckedTweetId, cachedMarker, replies, classified,
                   handled, effects, isDryRun, cycles, crashes>>
    /\ UNCHANGED notTwVars

\* handleTweet returns to the loop, on any of its return statements.
HandleTweetReturns ==
    /\ handled' = handled \cup {cur}
    /\ tSub' = "none"
    /\ StageDone

\* handleTweet up to composeState: a post of the agent itself or one without
\* text returns at once; image description errors are caught locally.
HandleTweetEntry ==
    /\ tPc = "body"
    /\ TStage = "handleTweet"
    /\ tSub = "none"
    /\ IF cur \in AgentTweets \/ cur \in TextlessTweets
       THEN HandleTweetReturns
       ELSE /\ tSub' = "tweetExists"
            /\ UNCHANGED <<tPc, tIdx, cands, cur, handled>>
    /\ UNCHANGED <<lastCheckedTweetId, cachedMarker, tMemories, replies,
                   classified, effects, isDryRun, cycles, crashes>>
    /\ UNCHANGED notTwVars

\* "check if the tweet exists, save if it doesn't": saveRequestMessage is
\* started without await, so its write may or may not have landed.
TweetExists ==
    /\ tPc = "body"
    /\ TStage = "handleTweet"
    /\ tSub = "tweetExists"
    /\ IF cur \in tMemories
       THEN UNCHANGED tMemories
       ELSE \E saved \in BOOLEAN :
               tMemories' = IF saved THEN tMemories \cup {cur} ELSE tMemories
    /\ tSub' = "generateShouldRespond"
    /\ UNCHANGED <<tPc, tIdx, cands, cur, lastCheckedTweetId, cachedMarker,
                   replies, classified, handled, effects, isDryRun, cycles, crashes>>
    /\ UNCHANGED notTwVars

\* generateShouldRespond resolves; any verdict but RESPOND returns.
GenerateShouldRespond ==
    /\ tPc = "body"
    /\ TStage = "handleTweet"
    /\ tSub = "generateShouldRespond"
    /\ classified' = [classified EXCEPT ![cur] = @ + 1]
    /\ \E shouldRespond \in {"RESPOND", "IGNORE", "STOP"} :
          IF shouldRespond # "RESPOND"
          THEN HandleTweetReturns
          ELSE /\ tSub' = "generateMessageResponse"
               /\ UNCHANGED <<tPc, tIdx, cands, cur, handled>>
    /\ UNCHANGED <<lastCheckedTweetId, cachedMarker, tMemories, replies,
                   effects, isDryRun, cycles, crashes>>
    /\ UNCHANGED notTwVars

\* generateMessageResponse resolves; a response without text ends the call,
\* one with text is logged in dry-run mode and sent otherwise.
GenerateMessageResponse ==
    /\ tPc = "body"
    /\ TStage = "handleTweet"
    /\ tSub = "generateMessageResponse"
    /\ \E hasText \in BOOLEAN :
          IF hasText /\ ResponseBranch(isDryRun) = "send"
          THEN /\ tSub' = "sendTweet"
               /\ UNCHANGED <<tPc, tIdx, cands, cur, handled, effects>>
          ELSE /\ effects' = IF hasText
                             THEN [effects EXCEPT ![cur] = @ \cup {"dryRunLog"}]
                             ELSE effects
               /\ HandleTweetReturns
    /\ UNCHANGED <<lastCheckedTweetId, cachedMarker, tMemories, replies,
                   classified, isDryRun, cycles, crashes>>
    /\ UNCHANGED notTwVars

\* callback(response): sendTweet posts the reply to the source post; a failure
\* is caught inside handleTweet.
SendTweet ==
    /\ tPc = "body"
    /\ TStage = "handleTweet"
    /\ tSub = "sendTweet"
    /\ \E sent \in BOOLEAN :
          IF sent
          THEN /\ replies' = [replies EXCEPT ![cur] = @ + 1]
               /\ tSub' = "afterSend"
               /\ UNCHANGED <<tPc, tIdx, cands, cur, handled>>
          ELSE /\ UNCHANGED replies
               /\ HandleTweetReturns
    /\ UNCHANGED <<lastCheckedTweetId, cachedMarker, tMemories, classified,
                   effects, isDryRun, cycles, crashes>>
    /\ UNCHANGED notTwVars

\* The rest of the try block: the state refresh, createMemory of the response
\* messages, processActions, the transcript written to the cache, wait.  Any
\* of them may throw to the catch of handleTweet, which logs; what ran before
\* stays done.
AfterSend ==
    /\ tPc = "body"
    /\ TStage = "handleTweet"
    /\ tSub = "afterSend"
    /\ \E n \in 0..Len(AfterSendEffects) :
          effects' = [effects EXCEPT
                         ![cur] = @ \cup Range(SubSeq(AfterSendEffects, 1, n))]
    /\ HandleTweetReturns
    /\ UNCHANGED <<lastCheckedTweetId, cachedMarker, tMemories, replies,
                   classified, isDryRun, cycles, crashes>>
    /\ UNCHANGED notTwVars

\* composeState, getMemoryById, generateShouldRespond (retries exhausted) or
\* generateMessageResponse rejects: handleTweet throws to the loop's catch.
HandleTweetThrows ==
    /\ tPc = "body"
    /\ TStage = "handleTweet"
    /\ tSub \in {"none", "tweetExists", "generateShouldRespond",
                 "generateMessageResponse"}
    /\ tSub = "none" => (cur \notin AgentTweets /\ cur \notin TextlessTweets)
    /\ classified' = IF tSub = "generateShouldRespond"
                     THEN [classified EXCEPT ![cur] = @ + 1] ELSE classified
    /\ CycleCatch
    /\ UNCHANGED <<lastCheckedTweetId, cachedMarker, tMemories, replies,
                   handled, effects, isDryRun, cycles, crashes>>
    /\ UNCHANGED notTwVars

\* this.client.lastCheckedTweetId = BigInt(tweet.id)
SetLastChecked ==
    /\ tPc = "body"
    /\ TStage = "setLastChecked"
    /\ lastCheckedTweetId' = cur
    /\ StageDone
    /\ UNCHANGED <<tSub, cachedMarker, tMemories, replies, classified, handled,
                   effects, isDryRun, cycles, crashes>>
    /\ UNCHANGED notTwVars

\* cacheLatestCheckedTweetId after the loop: a set marker is written to the
\* cache; a failing write is caught by the loop's catch.
CacheLatestCheckedTweetId ==
    /\ tPc = "persist"
    /\ \E written \in BOOLEAN :
          cachedMarker' = IF written /\ lastCheckedTweetId # 0
                          THEN lastCheckedTweetId ELSE cachedMarker
    /\ CycleCatch
    /\ UNCHANGED <<lastCheckedTweetId, tMemories, replies, classified, handled,
                   effects, isDryRun, cycles, crashes>>
    /\ UNCHANGED notTwVars

\* The process dies and is started again: the in-memory marker is reloaded
\* from the cache, the database keeps its rows.
CrashAndRestart ==
    /\ crashes < MaxCrashes
    /\ crashes' = crashes + 1
    /\ lastCheckedTweetId' = cachedMarker
    /\ CycleCatch
    /\ UNCHANGED <<cachedMarker, tMemories, replies, classified, handled,
                   effects, isDryRun, cycles>>
    /\ UNCHANGED notTwVars

NextTwitter ==
    \/ StartCycle
    \/ LoopHead
    \/ GetMemoryById
    \/ EnsureConnection
    \/ BuildConversationThread
    \/ BodyRejects
    \/ HandleTweetEntry
    \/ TweetExists
    \/ GenerateShouldRespond
    \/ GenerateMessageResponse
    \/ SendTweet
    \/ AfterSend
    \/ HandleTweetThrows
    \/ SetLastChecked
    \/ CacheLatestCheckedTweetId
    \/ CrashAndRestart


\* ========================================================================
\* Parsing-based generation helpers
\* ========================================================================
MAX_RETRIES == 5
InitialRetryDelay == 1000

Helpers == {"generateShouldRespond", "generateTrueOrFalse",
            "generateObjectDeprecated", "generateObjectArray"}

\* Helpers that test the context themselves and return at once when it is empty.
GuardedHelpers == {"generateObjectDeprecated", "generateObjectArray"}

\* What one pass of the try block can end in: the parse yields a value that
\* is returned, the parse yields none, or generateText or the parse throws.
\* generateText returns "" for an empty context, which never parses.
AttemptOutcomes(contextEmpty) ==
    IF contextEmpty THEN {"noValue", "raises"}
    ELSE {"value", "noValue", "raises"}

NextDelayLinear(delay) == delay + InitialRetryDelay

\* retryDelay *= 2
NextDelay(delay) == delay * 2

InitRetry ==
    /\ rHelper = "none"
    /\ rPc = "idle"
    /\ rContextEmpty = FALSE
    /\ retryCount = 0
    /\ retryDelay = InitialRetryDelay
    /\ rAttempts = 0
    /\ rDelays = << >>
    /\ rRuns = 0

\* A helper is called: the guarded ones return null / [] on an empty context,
\* the others enter the retry loop.
CallHelper ==
    /\ rPc \in {"idle", "returned", "thrown"}
    /\ rRuns < MaxRuns
    /\ rRuns' = rRuns + 1
    /\ \E h \in Helpers, empty \in BOOLEAN :
          /\ rHelper' = h
          /\ rContextEmpty' = empty
          /\ rPc' = IF empty /\ h \in GuardedHelpers THEN "returned"
                    ELSE IF 0 < MAX_RETRIES THEN "attempt" ELSE "thrown"
    /\ retryCount' = 0
    /\ retryDelay' = InitialRetryDelay
    /\ rAttempts' = 0
    /\ rDelays' = << >>
    /\ UNCHANGED notRetryVars

\* The try block of one iteration: generateText, then the parse.
Attempt ==
    /\ rPc = "attempt"
    /\ rAttempts' = rAttempts + 1
    /\ \E outcome \in AttemptOutcomes(rContextEmpty) :
          rPc' = IF outcome = "value" THEN "returned" ELSE "wait"
    /\ UNCHANGED <<rHelper, rContextEmpty, retryCount, retryDelay, rDelays, rRuns>>
    /\ UNCHANGED notRetryVars

\* The tail of the iteration: sleep retryDelay, double it, count the retry,
\* test the loop condition.
WaitAndRetry ==
    /\ rPc = "wait"
    /\ rDelays' = Append(rDelays, retryDelay)
    /\ retryDelay' = NextDelay(retryDelay)
    /\ retryCount' = retryCount + 1
    /\ rPc' = IF retryCount + 1 < MAX_RETRIES THEN "attempt" ELSE "thrown"
    /\ UNCHANGED <<rHelper, rContextEmpty, rAttempts, rRuns>>
    /\ UNCHANGED notRetryVars

NextRetry ==
    \/ CallHelper
    \/ Attempt
    \/ WaitAndRetry

\* ========================================================================
\* sqlite adapter: memories and knowledge
\* ========================================================================
NULL == "NULL"
NoId == "undefined"

MemoryIds == {"m1", "m2"}
MemoryTables == {"messages", "facts"}
MemoryContents == {"a", "b"}

KnowledgeIds == {"k1", "k2"}
KnowledgeContents == {"x", "y"}

\* The arguments of createMemory; memory.id may be absent.
MemoryInputs ==
    [id : MemoryIds \cup {NoId}, tableName : MemoryTables,
     content : MemoryContents]

\* The arguments of createKnowledge; isShared is content.metadata.isShared.
KnowledgeInputs ==
    [id : KnowledgeIds, agentId : {"a1"}, content : KnowledgeContents,
     isShared : BOOLEAN]

\* The row bound to the INSERT OR REPLACE of createMemory.
MemoryRow(m, id) ==
    [id |-> id, type |-> m.tableName, content |-> m.content, userId |-> "u1",
     roomId |-> "r1", agentId |-> "a1", unique |-> 1]

InsertKeepingOld(table, row) == table \cup {row}

\* INSERT OR REPLACE INTO memories: id is the primary key.
InsertOrReplace(table, row) == {r \in table : r.id # row.id} \cup {row}

\* The row bound to the INSERT of createKnowledge.
KnowledgeRowOwned(k) ==
    [id |-> k.id, agentId |-> k.agentId, content |-> k.content,
     isShared |-> IF k.isShared THEN 1 ELSE 0]

KnowledgeRow(k) ==
    [id |-> k.id, agentId |-> IF k.isShared THEN NULL ELSE k.agentId,
     content |-> k.content, isShared |-> IF k.isShared THEN 1 ELSE 0]

NoErr == [code |-> "none", message |-> << >>]

\* The error of a primary key violation: its code names the constraint, its
\* message is the engine's text.
PrimaryKeyError ==
    [code |-> "SQLITE_CONSTRAINT_PRIMARYKEY",
     message |-> << "UNIQUE", "constraint", "failed:", "knowledge.id" >>]

\* Any other failure of the statement.
IoError == [code |-> "SQLITE_IOERR", message |-> << "disk", "I/O", "error" >>]

\* error.message?.includes(word)
Includes(message, word) == word \in Range(message)

InsertRowReplacing(table, row) ==
    [error |-> NoErr, table |-> InsertOrReplace(table, row)]

\* INSERT INTO knowledge inside db.transaction: a taken id aborts it.
InsertRow(table, row) ==
    IF \E r \in table : r.id = row.id
    THEN [error |-> PrimaryKeyError, table |-> table]
    ELSE [error |-> NoErr, table |-> table \cup {row}]

RethrowsByCode(isShared, error) ==
    /\ ~(isShared /\ error.code = "SQLITE_CONSTRAINT_PRIMARYKEY")
    /\ ~isShared
    /\ error.code # "SQLITE_CONSTRAINT_PRIMARYKEY"

\* The catch of createKnowledge: TRUE when the error is thrown on.
Rethrows(isShared, error) ==
    /\ ~(isShared /\ error.code = "SQLITE_CONSTRAINT_PRIMARYKEY")
    /\ ~isShared
    /\ ~Includes(error.message, "SQLITE_CONSTRAINT_PRIMARYKEY")

NoCall == [op |-> "none"]

InitDb ==
    /\ memories = {}
    /\ knowledge = {}
    /\ dbLast = NoCall
    /\ dbPrev = [memories |-> {}, knowledge |-> {}]
    /\ dbCalls = 0

\* createMemory(memory, tableName); v4() yields an id no row has.
CreateMemory ==
    /\ dbCalls < MaxDbCalls
    /\ dbCalls' = dbCalls + 1
    /\ dbPrev' = [memories |-> memories, knowledge |-> knowledge]
    /\ \E m \in MemoryInputs, failed \in BOOLEAN :
       \E id \in IF m.id = NoId
                 THEN MemoryIds \ {r.id : r \in memories}
                 ELSE {m.id} :
          /\ memories' = IF failed THEN memories
                         ELSE InsertOrReplace(memories, MemoryRow(m, id))
          /\ dbLast' = [op |-> "createMemory", id |-> id,
                        row |-> MemoryRow(m, id),
                        existed |-> \E r \in memories : r.id = id,
                        outcome |-> IF failed THEN "threw" ELSE "returned"]
    /\ UNCHANGED knowledge
    /\ UNCHANGED notDbVars

\* createKnowledge(knowledge)
CreateKnowledge ==
    /\ dbCalls < MaxDbCalls
    /\ dbCalls' = dbCalls + 1
    /\ dbPrev' = [memories |-> memories, knowledge |-> knowledge]
    /\ \E k \in KnowledgeInputs, failed \in BOOLEAN :
          LET res == IF failed THEN [error |-> IoError, table |-> knowledge]
                     ELSE InsertRow(knowledge, KnowledgeRow(k))
          IN  /\ knowledge' = res.table
              /\ dbLast' = [op |-> "createKnowledge", id |-> k.id,
                            isShared |-> k.isShared, content |-> k.content,
                            collided |-> \E r \in knowledge : r.id = k.id,
                            error |-> res.error.code,
                            outcome |-> IF res.error # NoErr
                                           /\ Rethrows(k.isShared, res.error)
                                        THEN "threw" ELSE "returned"]
    /\ UNCHANGED memories
    /\ UNCHANGED notDbVars

NextDb ==
    \/ CreateMemory
    \/ CreateKnowledge

\* ========================================================================
\* Prediction contract helpers
\* ========================================================================
TxOps == {"createPrediction", "placeBet", "resolvePrediction"}

TxStepsSignFirst(op) ==
    IF op = "resolvePrediction"
    THEN << "prepare", "sign", "simulate", "encode", "broadcast" >>
    ELSE IF op = "createPrediction"
    THEN << "readPredictionCount", "prepare", "sign", "simulate", "encode",
            "broadcast", "wait" >>
    ELSE << "getBetAmount", "prepare", "sign", "simulate", "encode",
            "broadcast", "wait" >>

\* The awaited calls of each helper, in program order.
TxSteps(op) ==
    IF op = "resolvePrediction"
    THEN << "simulate", "encode", "prepare", "sign", "broadcast" >>
    ELSE IF op = "createPrediction"
    THEN << "readPredictionCount", "simulate", "encode", "prepare", "sign",
            "broadcast", "wait" >>
    ELSE << "getBetAmount", "simulate", "encode", "prepare", "sign",
            "broadcast", "wait" >>

CStep == TxSteps(cOp)[cPc]

NoAmount == -1

GetBetAmountNoClamp(amount, allowance, maxBet, minBet) ==
    IF allowance <= 0 THEN [raised |-> TRUE, bet |-> NoAmount]
    ELSE IF amount < minBet THEN [raised |-> TRUE, bet |-> NoAmount]
    ELSE IF allowance < amount THEN [raised |-> TRUE, bet |-> NoAmount]
    ELSE [raised |-> FALSE, bet |-> amount]

\* getBetAmount once its three reads have resolved.
GetBetAmount(amount, allowance, maxBet, minBet) ==
    IF allowance <= 0 THEN [raised |-> TRUE, bet |-> NoAmount]
    ELSE IF amount < minBet THEN [raised |-> TRUE, bet |-> NoAmount]
    ELSE LET betAmount == IF amount > maxBet THEN maxBet ELSE amount
         IN  IF allowance < betAmount THEN [raised |-> TRUE, bet |-> NoAmount]
             ELSE [raised |-> FALSE, bet |-> betAmount]

NoArgs == [simulated |-> NoAmount, encoded |-> NoAmount, sent |-> NoAmount]

NoInputs == [amount |-> 0, allowance |-> 0, minBet |-> 0, maxBet |-> 0,
             read |-> FALSE, reverted |-> FALSE]

InitChain ==
    /\ cOp = "none"
    /\ cPc = 0
    /\ cSteps = << >>
    /\ cIn = NoInputs
    /\ cBetAmount = NoAmount
    /\ cArgs = NoArgs
    /\ cOutcome = "returned"
    /\ cRuns = 0

\* One of the three helpers is called; amount is parseEther(amount).
CallTx ==
    /\ cOutcome # "running"
    /\ cRuns < MaxTxRuns
    /\ cRuns' = cRuns + 1
    /\ \E op \in TxOps, amount \in 0..MaxWei :
          /\ cOp' = op
          /\ cIn' = [NoInputs EXCEPT !.amount = IF op = "placeBet" THEN amount ELSE 0]
    /\ cPc' = 1
    /\ cSteps' = << >>
    /\ cBetAmount' = NoAmount
    /\ cArgs' = NoArgs
    /\ cOutcome' = "running"
    /\ UNCHANGED notChainVars

\* The step at cPc has resolved: go on, or return after the last one.
TxStepDone ==
    /\ cSteps' = Append(cSteps, CStep)
    /\ IF cPc = Len(TxSteps(cOp))
       THEN /\ cPc' = 0
            /\ cOutcome' = "returned"
       ELSE /\ cPc' = cPc + 1
            /\ UNCHANGED cOutcome

TxRaise ==
    /\ cPc' = 0
    /\ cOutcome' = "raised"
    /\ UNCHANGED cSteps

\* readContract predictionCount resolves.
ReadPredictionCount ==
    /\ cOutcome = "running"
    /\ CStep = "readPredictionCount"
    /\ TxStepDone
    /\ UNCHANGED <<cOp, cIn, cBetAmount, cArgs, cRuns>>
    /\ UNCHANGED notChainVars

\* getBetAmount: allowance, maxBet and minBet are read and tested.
GetBetAmountStep ==
    /\ cOutcome = "running"
    /\ CStep = "getBetAmount"
    /\ \E allowance \in 0..MaxWei, maxBet \in 0..MaxWei, minBet \in 0..MaxWei :
          LET res == GetBetAmount(cIn.amount, allowance, maxBet, minBet)
          IN  /\ cIn' = [cIn EXCEPT !.allowance = allowance, !.maxBet = maxBet,
                                    !.minBet = minBet, !.read = TRUE]
              /\ cBetAmount' = res.bet
              /\ IF res.raised THEN TxRaise ELSE TxStepDone
    /\ UNCHANGED <<cOp, cArgs, cRuns>>
    /\ UNCHANGED notChainVars

\* simulateContract resolves, or rejects because the call reverts.
Simulate ==
    /\ cOutcome = "running"
    /\ CStep = "simulate"
    /\ \E reverts \in BOOLEAN :
          /\ cIn' = [cIn EXCEPT !.reverted = reverts]
          /\ IF reverts
             THEN TxRaise /\ UNCHANGED cArgs
             ELSE /\ TxStepDone
                  /\ cArgs' = [cArgs EXCEPT !.simulated = cBetAmount]
    /\ UNCHANGED <<cOp, cBetAmount, cRuns>>
    /\ UNCHANGED notChainVars

\* encodeFunctionData
Encode ==
    /\ cOutcome = "running"
    /\ CStep = "encode"
    /\ TxStepDone
    /\ cArgs' = [cArgs EXCEPT !.encoded = cBetAmount]
    /\ UNCHANGED <<cOp, cIn, cBetAmount, cRuns>>
    /\ UNCHANGED notChainVars

\* prepareTransactionRequest and signTransaction resolve.
PrepareOrSign ==
    /\ cOutcome = "running"
    /\ CStep \in {"prepare", "sign"}
    /\ TxStepDone
    /\ UNCHANGED <<cOp, cIn, cBetAmount, cArgs, cRuns>>
    /\ UNCHANGED notChainVars

\* sendRawTransaction resolves: the signed data is on the network.
Broadcast ==
    /\ cOutcome = "running"
    /\ CStep = "broadcast"
    /\ TxStepDone
    /\ cArgs' = [cArgs EXCEPT !.sent = cArgs.encoded]
    /\ UNCHANGED <<cOp, cIn, cBetAmount, cRuns>>
    /\ UNCHANGED notChainVars

\* waitForTransactionReceipt resolves with one confirmation; a receipt that
\* is not a success raises.
WaitForReceipt ==
    /\ cOutcome = "running"
    /\ CStep = "wait"
    /\ \E success \in BOOLEAN :
          IF success THEN TxStepDone
          ELSE /\ cSteps' = Append(cSteps, CStep)
               /\ cPc' = 0
               /\ cOutcome' = "raised"
    /\ UNCHANGED <<cOp, cIn, cBetAmount, cArgs, cRuns>>
    /\ UNCHANGED notChainVars

\* An awaited client call rejects (transport failure).
TxCallRejects ==
    /\ cOutcome = "running"
    /\ CStep \in {"readPredictionCount", "getBetAmount", "prepare", "sign",
                  "broadcast", "wait"}
    /\ TxRaise
    /\ UNCHANGED <<cOp, cIn, cBetAmount, cArgs, cRuns>>
    /\ UNCHANGED notChainVars

NextChain ==
    \/ CallTx
    \/ ReadPredictionCount
    \/ GetBetAmountStep
    \/ Simulate
    \/ Encode
    \/ PrepareOrSign
    \/ Broadcast
    \/ WaitForReceipt
    \/ TxCallRejects

\* ========================================================================
\* Structured generation: generateText, generateObject, generateTweetActions
\* ========================================================================
GenEntries == {"generateText", "generateObject", "generateTweetActions"}

\* generateTweetActions delegates to generateObject.
GenCore(entry) == IF entry = "generateText" THEN "generateText"
                  ELSE "generateObject"

GenStepsTrimFirst(fn) ==
    IF fn = "generateText"
    THEN <<"trimTokens", "checkContext", "getModelSettings", "getModel",
           "aiGenerateText">>
    ELSE <<"trimTokens", "checkContext", "getModelSettings", "getModel",
           "aiGenerateObject", "schemaParse">>

\* The statements of generateText and of generateObject, in program order.
GenSteps(fn) ==
    IF fn = "generateText"
    THEN <<"checkContext", "getModelSettings", "trimTokens", "getModel",
           "aiGenerateText">>
    ELSE <<"checkContext", "getModelSettings", "trimTokens", "getModel",
           "aiGenerateObject", "schemaParse">>

ProviderSteps == {"aiGenerateText", "aiGenerateObject"}

GStep == IF gEntry # "none" /\ gPc \in 1..Len(GenSteps(GenCore(gEntry)))
         THEN GenSteps(GenCore(gEntry))[gPc] ELSE "none"

\* throw new Error("<function> context is empty")
ContextEmptyError(fn) == <<fn, "context", "is", "empty">>

SettingsError == <<"Model", "settings", "not", "found", "for", "provider">>

OtherError == <<"provider", "failure">>

NoObject == [none |-> TRUE]

\* An object the schema rejects.
Malformed == [malformed |-> TRUE]

\* result.text of the text call.
GeneratedText == [text |-> "text"]

\* The objects actionsSchema accepts, without the analysis text.
ActionResponses == [like : BOOLEAN, retweet : BOOLEAN, quote : BOOLEAN,
                    reply : BOOLEAN]

AllFalse == [like |-> FALSE, retweet |-> FALSE, quote |-> FALSE, reply |-> FALSE]

\* What the model may send back for the object call.
ProviderObjects == ActionResponses \cup {Malformed}

TweetActionsOnErrorRethrow == [kind |-> "throw", value |-> NoObject]

\* The catch block of generateTweetActions: log, return the all-false response.
TweetActionsOnError == [kind |-> "return", value |-> AllFalse]

InitGen ==
    /\ gEntry = "none"
    /\ gPc = 0
    /\ gContextEmpty = FALSE
    /\ gSettings = TRUE
    /\ gSteps = << >>
    /\ gInner = "none"
    /\ gError = NoError
    /\ gObject = NoObject
    /\ gOutcome = "none"
    /\ gResult = NoObject
    /\ gRuns = 0

\* A caller invokes one of the three functions.
CallGen ==
    /\ gOutcome # "running"
    /\ gRuns < MaxGenRuns
    /\ gRuns' = gRuns + 1
    /\ \E e \in GenEntries, empty \in BOOLEAN, found \in BOOLEAN :
          /\ gEntry' = e
          /\ gContextEmpty' = empty
          /\ gSettings' = found
    /\ gPc' = 1
    /\ gSteps' = << >>
    /\ gInner' = "running"
    /\ gError' = NoError
    /\ gObject' = NoObject
    /\ gOutcome' = "running"
    /\ gResult' = NoObject
    /\ UNCHANGED notGenVars

\* generateText / generateObject leaves by a throw.  Called directly the
\* error reaches the caller; inside generateTweetActions it reaches the catch.
GenRaise(msg) ==
    /\ gInner' = "raised"
    /\ gError' = msg
    /\ gPc' = 0
    /\ gOutcome' = IF gEntry = "generateTweetActions" THEN "running" ELSE "raised"
    /\ UNCHANGED <<gResult, gObject>>

\* The statement completes and control moves to the next one.
GenAdvance ==
    /\ gPc' = gPc + 1
    /\ UNCHANGED <<gInner, gError, gOutcome, gResult>>

\* if (!context) throw
GenCheckContext ==
    /\ gInner = "running"
    /\ GStep = "checkContext"
    /\ gSteps' = Append(gSteps, GStep)
    /\ IF gContextEmpty
       THEN GenRaise(ContextEmptyError(GenCore(gEntry)))
       ELSE GenAdvance /\ UNCHANGED gObject
    /\ UNCHANGED <<gEntry, gContextEmpty, gSettings, gRuns>>
    /\ UNCHANGED notGenVars

\* getModelSettings, then if (!settings) throw
GenGetModelSettings ==
    /\ gInner = "running"
    /\ GStep = "getModelSettings"
    /\ gSteps' = Append(gSteps, GStep)
    /\ IF gSettings
       THEN GenAdvance /\ UNCHANGED gObject
       ELSE GenRaise(SettingsError)
    /\ UNCHANGED <<gEntry, gContextEmpty, gSettings, gRuns>>
    /\ UNCHANGED notGenVars

\* await trimTokens(...) and getModel(...) complete.
GenStepResolves ==
    /\ gInner = "running"
    /\ GStep \in {"trimTokens", "getModel"}
    /\ gSteps' = Append(gSteps, GStep)
    /\ GenAdvance
    /\ UNCHANGED <<gEntry, gContextEmpty, gSettings, gObject, gRuns>>
    /\ UNCHANGED notGenVars

\* trimTokens, getModel or the provider call throws.
GenStepRejects ==
    /\ gInner = "running"
    /\ GStep \in {"trimTokens", "getModel"} \cup ProviderSteps
    /\ gSteps' = Append(gSteps, GStep)
    /\ GenRaise(OtherError)
    /\ UNCHANGED <<gEntry, gContextEmpty, gSettings, gRuns>>
    /\ UNCHANGED notGenVars

\* await aiGenerateText(...) resolves and generateText returns result.text.
GenTextReturns ==
    /\ gInner = "running"
    /\ GStep = "aiGenerateText"
    /\ gSteps' = Append(gSteps, GStep)
    /\ gInner' = "returned"
    /\ gOutcome' = "returned"
    /\ gResult' = GeneratedText
    /\ gPc' = 0
    /\ UNCHANGED <<gEntry, gContextEmpty, gSettings, gError, gObject, gRuns>>
    /\ UNCHANGED notGenVars

\* await aiGenerateObject(...) resolves with some object.
GenObjectResolves ==
    /\ gInner = "running"
    /\ GStep = "aiGenerateObject"
    /\ gSteps' = Append(gSteps, GStep)
    /\ \E obj \in ProviderObjects : gObject' = obj
    /\ GenAdvance
    /\ UNCHANGED <<gEntry, gContextEmpty, gSettings, gRuns>>
    /\ UNCHANGED notGenVars

\* schema.parse(result.object); return result.  Called directly the result
\* goes to the caller, otherwise generateTweetActions goes on with it.
GenSchemaParse ==
    /\ gInner = "running"
    /\ GStep = "schemaParse"
    /\ gSteps' = Append(gSteps, GStep)
    /\ IF gObject = Malformed
       THEN GenRaise(OtherError)
       ELSE /\ gInner' = "returned"
            /\ gPc' = 0
            /\ gOutcome' = IF gEntry = "generateTweetActions" THEN "running"
                           ELSE "returned"
            /\ gResult' = IF gEntry = "generateTweetActions" THEN gResult
                          ELSE gObject
            /\ UNCHANGED <<gError, gObject>>
    /\ UNCHANGED <<gEntry, gContextEmpty, gSettings, gRuns>>
    /\ UNCHANGED notGenVars

\* generateTweetActions: return response.object
TweetActionsReturn ==
    /\ gEntry = "generateTweetActions"
    /\ gOutcome = "running"
    /\ gInner = "returned"
    /\ gOutcome' = "returned"
    /\ gResult' = gObject
    /\ UNCHANGED <<gEntry, gPc, gContextEmpty, gSettings, gSteps, gInner,
                   gError, gObject, gRuns>>
    /\ UNCHANGED notGenVars

\* generateTweetActions: the catch block.
TweetActionsCatch ==
    /\ gEntry = "generateTweetActions"
    /\ gOutcome = "running"
    /\ gInner = "raised"
    /\ gOutcome' = IF TweetActionsOnError.kind = "return" THEN "returned"
                   ELSE "raised"
    /\ gResult' = TweetActionsOnError.value
    /\ UNCHANGED <<gEntry, gPc, gContextEmpty, gSettings, gSteps, gInner,
                   gError, gObject, gRuns>>
    /\ UNCHANGED notGenVars

NextGen ==
    \/ CallGen
    \/ GenCheckContext
    \/ GenGetModelSettings
    \/ GenStepResolves
    \/ GenStepRejects
    \/ GenObjectResolves
    \/ GenTextReturns
    \/ GenSchemaParse
    \/ TweetActionsReturn
    \/ TweetActionsCatch

\* ========================================================================
\* Daily chain statistics: L1DataTool.getDailyData
\* ========================================================================
\* this.fetchers, in array order.
Fetchers == <<"TRANSACTIONS", "TX_VOLUME", "SUM_GAS", "AVG_GAS",
              "ACTIVE_WALLETS", "PEAK_TPS", "TVL", "HOLDERS",
              "AVG_STAKING_DURATION">>

MetricKeys == Range(Fetchers)

KeyIndex(k) == CHOOSE i \in 1..Len(Fetchers) : Fetchers[i] = k

\* getYesterday(): the day before today.
Yesterday == -1

\* Dates a caller may pass, as days from today.
Dates == {-2, -1, 0, 1}

\* if (inputDate > yesterday) throw
DateAccepted(date) == ~(date > Yesterday)

\* _METRICS: the field each metric key stands for.
METRICS ==
    [k \in MetricKeys |->
        CASE k = "TRANSACTIONS" -> "transactions"
          [] k = "TX_VOLUME" -> "tx_volume"
          [] k = "SUM_GAS" -> "sum_gas"
          [] k = "AVG_GAS" -> "avg_gas"
          [] k = "ACTIVE_WALLETS" -> "active_wallets"
          [] k = "PEAK_TPS" -> "peak_tps"
          [] k = "TVL" -> "tvl"
          [] k = "HOLDERS" -> "holders"
          [] k = "AVG_STAKING_DURATION" -> "avg_staking_duration"]

StatFields == {"transactions", "tx_volume", "sum_gas", "avg_gas",
               "active_wallets", "peak_tps", "tvl", "holders",
               "avg_staking_duration"}

FieldKeyTvlForHolders(f) ==
    CASE f = "transactions" -> "TRANSACTIONS"
      [] f = "tx_volume" -> "TX_VOLUME"
      [] f = "sum_gas" -> "SUM_GAS"
      [] f = "avg_gas" -> "AVG_GAS"
      [] f = "active_wallets" -> "ACTIVE_WALLETS"
      [] f = "peak_tps" -> "PEAK_TPS"
      [] f = "tvl" -> "TVL"
      [] f = "holders" -> "TVL"
      [] f = "avg_staking_duration" -> "AVG_STAKING_DURATION"

\* buildResults: the metric key whose result fills each field.
FieldKey(f) ==
    CASE f = "transactions" -> "TRANSACTIONS"
      [] f = "tx_volume" -> "TX_VOLUME"
      [] f = "sum_gas" -> "SUM_GAS"
      [] f = "avg_gas" -> "AVG_GAS"
      [] f = "active_wallets" -> "ACTIVE_WALLETS"
      [] f = "peak_tps" -> "PEAK_TPS"
      [] f = "tvl" -> "TVL"
      [] f = "holders" -> "HOLDERS"
      [] f = "avg_staking_duration" -> "AVG_STAKING_DURATION"

\* The numbers a fetcher may resolve with for a date.  Each endpoint has its
\* own figure; fetchDailyTvl and fetchDailyStakingDuration resolve with 0
\* when the endpoint has no row for the date.
FetchValues(k, date) ==
    {10 * KeyIndex(k) + (date - Yesterday)}
        \cup (IF k \in {"TVL", "AVG_STAKING_DURATION"} THEN {0} ELSE {})

\* value: null is the empty sequence, a number v is <<v>>.
Null == << >>

Pending == [pending |-> TRUE]

\* safeFetch, try branch: return { value }
FetchOk(v) == [value |-> <<v>>, error |-> ""]

\* safeFetch, catch branch: return { value: null, error: error.message }
FetchFailed(msg) == [value |-> Null, error |-> msg]

\* The message of the error a failing fetcher throws.
FetchErrorMessage(k) == "Failed to fetch"

\* Number(result?.value ?? 0)
resultOrZeroIfNan(result) ==
    IF result.value = Null THEN 0 ELSE result.value[1]

\* buildResults
buildResults(date, results) ==
    [f \in StatFields \cup {"date"} |->
        IF f = "date" THEN date ELSE resultOrZeroIfNan(results[FieldKey(f)])]

\* logErrors: results.forEach in insertion order, one error line for each
\* result whose error is set.
RECURSIVE logErrorsFrom(_, _)
logErrorsFrom(i, results) ==
    IF i > Len(Fetchers) THEN << >>
    ELSE (IF results[Fetchers[i]].error # "" THEN <<Fetchers[i]>> ELSE << >>)
            \o logErrorsFrom(i + 1, results)

logErrors(results) == logErrorsFrom(1, results)

NoStats == [none |-> TRUE]

InitDaily ==
    /\ dPc = "idle"
    /\ dDate = Yesterday
    /\ dResults = [k \in MetricKeys |-> Pending]
    /\ dStats = NoStats
    /\ dErrorLog = << >>
    /\ dRuns = 0

\* getDailyData(date): the date test, then runFetchers starts every fetcher
\* inside safeFetch and awaits Promise.all.
GetDailyData ==
    /\ dPc \in {"idle", "returned", "raised"}
    /\ dRuns < MaxDailyRuns
    /\ dRuns' = dRuns + 1
    /\ \E date \in Dates :
          /\ dDate' = date
          /\ dPc' = IF DateAccepted(date) THEN "fetching" ELSE "raised"
    /\ dResults' = [k \in MetricKeys |-> Pending]
    /\ dStats' = NoStats
    /\ dErrorLog' = << >>
    /\ UNCHANGED notDailyVars

\* One fetcher resolves; the others are still in flight or done.
FetchResolves ==
    /\ dPc = "fetching"
    /\ \E k \in MetricKeys :
          /\ dResults[k] = Pending
          /\ \E v \in FetchValues(k, dDate) :
                dResults' = [dResults EXCEPT ![k] = FetchOk(v)]
    /\ UNCHANGED <<dPc, dDate, dStats, dErrorLog, dRuns>>
    /\ UNCHANGED notDailyVars

\* One fetcher rejects and safeFetch turns the rejection into a result.
FetchRejects ==
    /\ dPc = "fetching"
    /\ \E k \in MetricKeys :
          /\ dResults[k] = Pending
          /\ dResults' = [dResults EXCEPT ![k] = FetchFailed(FetchErrorMessage(k))]
    /\ UNCHANGED <<dPc, dDate, dStats, dErrorLog, dRuns>>
    /\ UNCHANGED notDailyVars

\* Promise.all resolves once every safeFetch has; logErrors, buildResults
\* and the return follow without another await.
DailyDataReturns ==
    /\ dPc = "fetching"
    /\ \A k \in MetricKeys : dResults[k] # Pending
    /\ dErrorLog' = logErrors(dResults)
    /\ dStats' = buildResults(dDate, dResults)
    /\ dPc' = "returned"
    /\ UNCHANGED <<dDate, dResults, dRuns>>
    /\ UNCHANGED notDailyVars

NextDaily ==
    \/ GetDailyData
    \/ FetchResolves
    \/ FetchRejects
    \/ DailyDataReturns

\* ========================================================================
\* /:agentId/message-stream handler
\* ========================================================================
StreamAgentId == "agent"
StreamUserId == "user"

\* stringToUuid: a fixed function of its argument, taken to be injective.
stringToUuid(s) == "uuid(" \o s \o ")"

\* messageId = stringToUuid(Date.now().toString())
MessageId(now) == stringToUuid(ToString(now))

\* memory.id = stringToUuid(messageId + "-" + userId)
InboundMemoryId(now) == stringToUuid(MessageId(now) \o "-" \o StreamUserId)

\* buildAndSaveMemory: id = stringToUuid(messageId + "-" + agentId), where
\* messageId is the id of the assistant message.
OutboundMemoryId(msgId) == stringToUuid(msgId \o "-" \o StreamAgentId)

NoReply == ""

\* The statements of handle(), in program order.
StreamStages ==
    <<"getRuntime", "ensureConnection", "composeContent", "createMemory",
      "composeState", "composeContext", "streamWithTools",
      "pipeDataStreamToResponse", "awaitResponse", "processAssistantMessages">>

\* The statements that can fail: the awaited calls and the agent lookup.
StreamFailingStages ==
    {"getRuntime", "ensureConnection", "composeContent", "createMemory",
     "composeState", "awaitResponse"}

SStage == IF sPc \in 1..Len(StreamStages) THEN StreamStages[sPc] ELSE "none"

StreamFinished == sPc = Len(StreamStages) + 1

\* Content parts of a message: type and, for text parts, the text.
PartTypes == {"text", "tool-call"}

MessageRoles == {"assistant", "tool"}

\* The types of the parts of one message: 0..MaxParts parts.
Contents == UNION {[1..n -> PartTypes] : n \in 0..MaxParts}

\* The parts of message m; the text of a text part names its place.
PartsOf(m, types) ==
    [p \in 1..Len(types) |->
        [type |-> types[p],
         text |-> IF types[p] = "text"
                  THEN "text-" \o ToString(m) \o "-" \o ToString(p) ELSE ""]]

\* response.messages: n messages with distinct ids, the given roles and
\* the given part types.
ResponseMessages(n, roles, types) ==
    [m \in 1..n |->
        [id |-> "msg-" \o ToString(m), role |-> roles[m],
         content |-> PartsOf(m, types[m])]]

\* The inbound memory row.
InboundRow(now) ==
    [id |-> InboundMemoryId(now), userId |-> StreamUserId,
     agentId |-> StreamAgentId, text |-> "request", inReplyTo |-> NoReply]

\* processMessageContents and buildAndSaveMemory for one text part.
OutboundRow(msgId, text, inReplyTo) ==
    [id |-> OutboundMemoryId(msgId), userId |-> StreamAgentId,
     agentId |-> StreamAgentId, text |-> text, inReplyTo |-> inReplyTo]

\* The text-typed parts of the assistant messages, as <<message, part>>.
TextParts(messages) ==
    UNION {
        {<<m, p>> : p \in {q \in 1..Len(messages[m].content) :
                               messages[m].content[q].type = "text"}}
      : m \in {i \in 1..Len(messages) : messages[i].role = "assistant"}}

\* processAssistantMessages: one row per text part of every assistant
\* message; inReplyTo is the fourth argument of the call.
OutboundRows(messages, inReplyTo) ==
    {OutboundRow(messages[mp[1]].id, messages[mp[1]].content[mp[2]].text,
                 inReplyTo) : mp \in TextParts(messages)}

InitStream ==
    /\ sPc = 0
    /\ sNow = 0
    /\ sMessages = << >>
    /\ sMemories = {}
    /\ sPending = {}
    /\ sIssued = 0
    /\ sInboundId = ""
    /\ sEvents = << >>
    /\ sEnded = FALSE
    /\ sFailures = 0
    /\ sUnhandled = 0

\* A request arrives and handleMessageStream calls handle() inside its try.
HandleMessageStream ==
    /\ sPc = 0
    /\ sPc' = 1
    /\ \E now \in 1..MaxNow : sNow' = now
    /\ UNCHANGED <<sMessages, sMemories, sPending, sIssued, sInboundId, sEvents,
                   sEnded, sFailures, sUnhandled>>
    /\ UNCHANGED notStreamVars

\* A statement other than the ones below completes.
StreamStageResolves ==
    /\ SStage \in {"getRuntime", "ensureConnection", "composeContent",
                   "composeState", "composeContext", "streamWithTools"}
    /\ sPc' = sPc + 1
    /\ UNCHANGED <<sNow, sMessages, sMemories, sPending, sIssued, sInboundId,
                   sEvents, sEnded, sFailures, sUnhandled>>
    /\ UNCHANGED notStreamVars

\* await runtime.messageManager.createMemory(memory, ...): the inbound row.
StreamCreateMemory ==
    /\ SStage = "createMemory"
    /\ sMemories' = InsertOrReplace(sMemories, InboundRow(sNow))
    /\ sInboundId' = InboundRow(sNow).id
    /\ sPc' = sPc + 1
    /\ UNCHANGED <<sNow, sMessages, sPending, sIssued, sEvents, sEnded,
                   sFailures, sUnhandled>>
    /\ UNCHANGED notStreamVars

\* responseStream.pipeDataStreamToResponse(res)
PipeDataStreamToResponse ==
    /\ SStage = "pipeDataStreamToResponse"
    /\ sEvents' = Append(sEvents, "stream")
    /\ sPc' = sPc + 1
    /\ UNCHANGED <<sNow, sMessages, sMemories, sPending, sIssued, sInboundId,
                   sEnded, sFailures, sUnhandled>>
    /\ UNCHANGED notStreamVars

\* await responseStream.response resolves.
StreamResponseResolves ==
    /\ SStage = "awaitResponse"
    /\ \E n \in 1..MaxMessages :
          \E roles \in [1..n -> MessageRoles], types \in [1..n -> Contents] :
             sMessages' = ResponseMessages(n, roles, types)
    /\ sPc' = sPc + 1
    /\ UNCHANGED <<sNow, sMemories, sPending, sIssued, sInboundId, sEvents,
                   sEnded, sFailures, sUnhandled>>
    /\ UNCHANGED notStreamVars

\* processAssistantMessages(response.messages, runtime, roomId, messageId):
\* the call is not awaited, nor are processMessageContents and
\* buildAndSaveMemory; each text part's createMemory call is made before
\* handle() returns and settles later.
ProcessAssistantMessages ==
    /\ SStage = "processAssistantMessages"
    /\ sPending' = OutboundRows(sMessages, MessageId(sNow))
    /\ sIssued' = Cardinality(TextParts(sMessages))
    /\ sPc' = Len(StreamStages) + 1
    /\ UNCHANGED <<sNow, sMessages, sMemories, sInboundId, sEvents, sEnded,
                   sFailures, sUnhandled>>
    /\ UNCHANGED notStreamVars

\* A statement of handle() throws or rejects: the catch of
\* handleMessageStream writes the error event and ends the response.
StreamStageRejects ==
    /\ SStage \in StreamFailingStages
    /\ sFailures' = sFailures + 1
    /\ sEvents' = Append(sEvents, "error")
    /\ sEnded' = TRUE
    /\ sPc' = Len(StreamStages) + 1
    /\ UNCHANGED <<sNow, sMessages, sMemories, sPending, sIssued, sInboundId,
                   sUnhandled>>
    /\ UNCHANGED notStreamVars

\* The createMemory call of an outbound row completes: INSERT OR REPLACE.
OutboundSaveResolves ==
    /\ \E row \in sPending :
          /\ sMemories' = InsertOrReplace(sMemories, row)
          /\ sPending' = sPending \ {row}
    /\ UNCHANGED <<sPc, sNow, sMessages, sIssued, sInboundId, sEvents, sEnded,
                   sFailures, sUnhandled>>
    /\ UNCHANGED notStreamVars

\* The createMemory call of an outbound row rejects: the promise of
\* buildAndSaveMemory rejects, and nothing awaits it or attaches a handler.
OutboundSaveRejects ==
    /\ \E row \in sPending : sPending' = sPending \ {row}
    /\ sFailures' = sFailures + 1
    /\ sUnhandled' = sUnhandled + 1
    /\ UNCHANGED <<sPc, sNow, sMessages, sMemories, sIssued, sInboundId,
                   sEvents, sEnded>>
    /\ UNCHANGED notStreamVars

NextStream ==
    \/ HandleMessageStream
    \/ StreamStageResolves
    \/ StreamCreateMemory
    \/ PipeDataStreamToResponse
    \/ StreamResponseResolves
    \/ ProcessAssistantMessages
    \/ StreamStageRejects
    \/ OutboundSaveResolves
    \/ OutboundSaveRejects

\* ========================================================================
\* Reputation backend helper: getOrCreateRecommenderInBe
\* ========================================================================
\* retries = 3
DefaultRetries == 3

\* delayMs = 2000
DefaultDelayMs == 2000

\* undefined: the function ends without a return statement.
NoValue == "undefined"

\* Parsed bodies the backend may answer with.
RecommenderBodies == {"created", "existing"}

\* What one pass of the try block can end in: the body is returned, fetch
\* rejects, or response.json() rejects.
RequestOutcomes == {"body", "fetchRejects", "jsonRejects"}

ShouldWaitAlways(a, retries) == TRUE

\* if (attempt < retries) sleep, else log "All attempts failed."
ShouldWait(a, retries) == a < retries

\* for (...; attempt <= retries; ...)
LoopContinues(a, retries) == a <= retries

InitRecommender ==
    /\ bPc = "idle"
    /\ attempt = 0
    /\ bRequests = 0
    /\ bWaits = << >>
    /\ bLog = << >>
    /\ bResult = NoValue
    /\ bRuns = 0

\* The helper is called with the default retries and delayMs.
GetOrCreateRecommenderInBe ==
    /\ bPc \in {"idle", "returned"}
    /\ bRuns < MaxRecommenderRuns
    /\ bRuns' = bRuns + 1
    /\ attempt' = 1
    /\ bPc' = IF LoopContinues(1, DefaultRetries) THEN "attempt" ELSE "returned"
    /\ bRequests' = 0
    /\ bWaits' = << >>
    /\ bLog' = << >>
    /\ bResult' = NoValue
    /\ UNCHANGED notRecVars

\* The try block: fetch, then response.json(), then return data.
RecommenderRequest ==
    /\ bPc = "attempt"
    /\ bRequests' = bRequests + 1
    /\ \E outcome \in RequestOutcomes :
          IF outcome = "body"
          THEN /\ \E data \in RecommenderBodies : bResult' = data
               /\ bPc' = "returned"
               /\ UNCHANGED bLog
          ELSE /\ bPc' = "caught"
               /\ bLog' = Append(bLog, <<"attemptFailed", attempt, outcome>>)
               /\ UNCHANGED bResult
    /\ UNCHANGED <<attempt, bWaits, bRuns>>
    /\ UNCHANGED notRecVars

\* The rest of the catch block and the loop step: sleep before another
\* attempt, or log that all attempts failed; then attempt++ and the loop test.
RecommenderCatch ==
    /\ bPc = "caught"
    /\ IF ShouldWait(attempt, DefaultRetries)
       THEN /\ bWaits' = Append(bWaits, DefaultDelayMs)
            /\ bLog' = Append(bLog, <<"retrying", DefaultDelayMs>>)
       ELSE /\ bLog' = Append(bLog, <<"allFailed", attempt>>)
            /\ UNCHANGED bWaits
    /\ attempt' = attempt + 1
    /\ bPc' = IF LoopContinues(attempt + 1, DefaultRetries) THEN "attempt"
              ELSE "returned"
    /\ UNCHANGED <<bRequests, bResult, bRuns>>
    /\ UNCHANGED notRecVars

NextRecommender ==
    \/ GetOrCreateRecommenderInBe
    \/ RecommenderRequest
    \/ RecommenderCatch

\* ========================================================================
\* sqlite adapter: boolean-returning mutations
\* ========================================================================
AdapterUsers == {"u1", "u2"}
AdapterRooms == {"r1"}
CacheKeys == {"k1"}
CacheValues == {"a", "b"}

\* A params.userA / params.userB that is absent.
NoUser == ""

BooleanMutations == {"createAccount", "addParticipant", "removeParticipant",
                     "createRelationship", "setCache", "deleteCache"}

\* The mutations whose statement runs inside try { ... } catch { return false }.
CatchesStatementError(op) ==
    op \in {"createAccount", "addParticipant", "removeParticipant", "deleteCache"}

\* v4(): an id no row has yet.
FreshId(n) == "v4-" \o ToString(n)

AdapterTables ==
    [accounts |-> accounts, participants |-> participants,
     relationships |-> relationships, cache |-> cache]

\* How a call ends once its statement has run or failed: true, false from
\* the catch, or the statement's error where there is no catch.
MutationOutcome(op, statementFailed) ==
    IF ~statementFailed THEN "true"
    ELSE IF CatchesStatementError(op) THEN "false" ELSE "raised"

InitAdapter ==
    /\ accounts = {}
    /\ participants = {}
    /\ relationships = {}
    /\ cache = {}
    /\ aNextId = 0
    /\ aLast = [op |-> "none", statementFailed |-> FALSE, outcome |-> "none"]
    /\ aPrev = [accounts |-> {}, participants |-> {}, relationships |-> {},
                cache |-> {}]
    /\ aCalls = 0

\* What every mutation does besides its statement.
MutationCalled(op, statementFailed) ==
    /\ aCalls < MaxAdapterCalls
    /\ aCalls' = aCalls + 1
    /\ aPrev' = AdapterTables
    /\ aLast' = [op |-> op, statementFailed |-> statementFailed,
                 outcome |-> MutationOutcome(op, statementFailed)]

\* INSERT INTO accounts: id is the primary key, so a taken id fails the
\* statement, as may the engine.
CreateAccount ==
    /\ \E id \in AdapterUsers, engineFails \in BOOLEAN :
          LET failed == engineFails \/ (\E r \in accounts : r.id = id) IN
          /\ MutationCalled("createAccount", failed)
          /\ accounts' = IF failed THEN accounts
                         ELSE accounts \cup {[id |-> id, name |-> id]}
    /\ UNCHANGED <<participants, relationships, cache, aNextId>>
    /\ UNCHANGED notAdpVars

\* INSERT INTO participants (id, userId, roomId) VALUES (v4(), ?, ?)
AddParticipant ==
    /\ \E userId \in AdapterUsers, roomId \in AdapterRooms, failed \in BOOLEAN :
          /\ MutationCalled("addParticipant", failed)
          /\ participants' =
                IF failed THEN participants
                ELSE participants \cup {[id |-> FreshId(aNextId),
                                         userId |-> userId, roomId |-> roomId]}
    /\ aNextId' = aNextId + 1
    /\ UNCHANGED <<accounts, relationships, cache>>
    /\ UNCHANGED notAdpVars

\* DELETE FROM participants WHERE userId = ? AND roomId = ?
RemoveParticipant ==
    /\ \E userId \in AdapterUsers, roomId \in AdapterRooms, failed \in BOOLEAN :
          /\ MutationCalled("removeParticipant", failed)
          /\ participants' =
                IF failed THEN participants
                ELSE {r \in participants :
                         ~(r.userId = userId /\ r.roomId = roomId)}
    /\ UNCHANGED <<accounts, relationships, cache, aNextId>>
    /\ UNCHANGED notAdpVars

\* createRelationship: a missing user throws before any statement; the
\* INSERT runs outside any try block.
CreateRelationship ==
    /\ \E userA \in AdapterUsers \cup {NoUser}, userB \in AdapterUsers,
          failed \in BOOLEAN :
          IF userA = NoUser
          THEN /\ aCalls < MaxAdapterCalls
               /\ aCalls' = aCalls + 1
               /\ aPrev' = AdapterTables
               /\ aLast' = [op |-> "createRelationship",
                            statementFailed |-> FALSE, outcome |-> "raised"]
               /\ UNCHANGED <<relationships, aNextId>>
          ELSE /\ MutationCalled("createRelationship", failed)
               /\ relationships' =
                     IF failed THEN relationships
                     ELSE relationships \cup
                            {[id |-> FreshId(aNextId), userA |-> userA,
                              userB |-> userB, userId |-> userA]}
               /\ aNextId' = aNextId + 1
    /\ UNCHANGED <<accounts, participants, cache>>
    /\ UNCHANGED notAdpVars

\* INSERT OR REPLACE INTO cache, outside any try block.
SetCache ==
    /\ \E key \in CacheKeys, value \in CacheValues, failed \in BOOLEAN :
          /\ MutationCalled("setCache", failed)
          /\ cache' = IF failed THEN cache
                      ELSE {r \in cache : r.key # key}
                              \cup {[key |-> key, agentId |-> "a1",
                                     value |-> value]}
    /\ UNCHANGED <<accounts, participants, relationships, aNextId>>
    /\ UNCHANGED notAdpVars

\* DELETE FROM cache WHERE key = ? AND agentId = ?
DeleteCache ==
    /\ \E key \in CacheKeys, failed \in BOOLEAN :
          /\ MutationCalled("deleteCache", failed)
          /\ cache' = IF failed THEN cache
                      ELSE {r \in cache : r.key # key}
    /\ UNCHANGED <<accounts, participants, relationships, aNextId>>
    /\ UNCHANGED notAdpVars

NextAdapter ==
    \/ CreateAccount
    \/ AddParticipant
    \/ RemoveParticipant
    \/ CreateRelationship
    \/ SetCache
    \/ DeleteCache

\* ========================================================================
\* Token trimming: trimTokens, truncateTiktoken, truncateAuto
\* ========================================================================
\* Characters of a context: two one-byte letters and a character whose
\* UTF-8 form has two bytes.
Chars == {"a", "b", "E"}

\* U+FFFD, which a UTF-8 decoder puts in place of bytes that form no character.
Replacement == "?"

\* Contexts of up to MaxContextLen characters.
Contexts == UNION {[1..n -> Chars] : n \in 0..MaxContextLen}

\* TOKENIZER_TYPE as set by the operator; "unset" stands for a missing
\* TOKENIZER_MODEL or TOKENIZER_TYPE, "other" for an unsupported type.
TokenizerTypes == {"unset", "auto", "tiktoken", "other"}

\* trimTokens: which truncation runs for a setting.
TruncationFor(type) == IF type = "auto" THEN "auto" ELSE "tiktoken"

\* The UTF-8 bytes of a character: lead byte L and continuation byte C for E.
Utf8(c) == CASE c = "E" -> <<"L", "C">>
             [] c = Replacement -> <<"R">>
             [] OTHER -> <<c>>

RECURSIVE Utf8Bytes(_)
Utf8Bytes(text) ==
    IF text = << >> THEN << >> ELSE Utf8(Head(text)) \o Utf8Bytes(Tail(text))

\* A UTF-8 decoder that does not fail: bytes that form no character become
\* the replacement character.
RECURSIVE Utf8Decode(_)
Utf8Decode(bytes) ==
    IF bytes = << >> THEN << >>
    ELSE IF Head(bytes) = "L" /\ Len(bytes) > 1 /\ bytes[2] = "C"
         THEN <<"E">> \o Utf8Decode(SubSeq(bytes, 3, Len(bytes)))
    ELSE IF Head(bytes) \in {"L", "C", "R"}
         THEN <<Replacement>> \o Utf8Decode(Tail(bytes))
    ELSE <<Head(bytes)>> \o Utf8Decode(Tail(bytes))

\* The merge tables of the two byte-pair vocabularies, by rank.  Every byte
\* is a token of both; only the second has a token for the whole of E.
Merges(tokenizer) ==
    IF tokenizer = "tiktoken"
    THEN << <<<<"a">>, <<"b">>>>, <<<<"a", "b">>, <<"a">>>> >>
    ELSE << <<<<"L">>, <<"C">>>>, <<<<"b">>, <<"b">>>> >>

\* Rank of the pair <<x, y>> in a merge table, 0 if it is no merge.
PairRank(merges, x, y) ==
    IF \E i \in 1..Len(merges) : merges[i] = <<x, y>>
    THEN CHOOSE i \in 1..Len(merges) : merges[i] = <<x, y>>
    ELSE 0

\* Byte-pair encoding: merge the leftmost pair of lowest rank until no
\* adjacent pair is a merge.
RECURSIVE BytePairEncode(_, _)
BytePairEncode(parts, merges) ==
    LET mergeable == {i \in 1..(Len(parts) - 1) :
                     PairRank(merges, parts[i], parts[i + 1]) > 0}
    IN  IF mergeable = {} THEN parts
        ELSE LET i == CHOOSE j \in mergeable :
                        \A k \in mergeable :
                           LET rj == PairRank(merges, parts[j], parts[j + 1])
                               rk == PairRank(merges, parts[k], parts[k + 1])
                           IN  rj < rk \/ (rj = rk /\ j <= k)
             IN  BytePairEncode(
                     SubSeq(parts, 1, i - 1)
                        \o <<parts[i] \o parts[i + 1]>>
                        \o SubSeq(parts, i + 2, Len(parts)),
                     merges)

\* encode(context): the tokens, each a sequence of bytes.
EncodeTokens(tokenizer, text) ==
    LET bytes == Utf8Bytes(text)
    IN  BytePairEncode([i \in 1..Len(bytes) |-> <<bytes[i]>>], Merges(tokenizer))

RECURSIVE Flatten(_)
Flatten(tokens) ==
    IF tokens = << >> THEN << >> ELSE Head(tokens) \o Flatten(Tail(tokens))

\* decode(tokens): the bytes of the tokens, decoded as UTF-8.
Decode(tokens) == Utf8Decode(Flatten(tokens))

SliceFirst(s, n) == IF n >= Len(s) THEN s ELSE SubSeq(s, 1, n)

\* s.slice(-n) for n > 0: the last n elements, all of s when it is shorter.
SliceLast(s, n) == IF n >= Len(s) THEN s ELSE SubSeq(s, Len(s) - n + 1, Len(s))

\* Rough estimate of 4 chars per token
CharsPerToken == 4

\* The try block of truncateTiktoken and of truncateAuto.
Truncate(tokenizer, context, maxTokens) ==
    LET tokens == EncodeTokens(tokenizer, context)
    IN  IF Len(tokens) <= maxTokens THEN context
        ELSE Decode(SliceLast(tokens, maxTokens))

\* The catch block: context.slice(-maxTokens * 4)
TruncateFallback(context, maxTokens) ==
    SliceLast(context, maxTokens * CharsPerToken)

InitTrim ==
    /\ kPc = "idle"
    /\ kContext = << >>
    /\ kMaxTokens = 1
    /\ kTokenizer = "tiktoken"
    /\ kFellBack = FALSE
    /\ kResult = << >>

\* trimTokens(context, maxTokens, runtime): an empty context returns "", a
\* budget that is not positive throws, otherwise the settings pick the
\* truncation.
TrimTokens ==
    /\ kPc = "idle"
    /\ \E context \in Contexts, maxTokens \in 0..MaxBudget,
          type \in TokenizerTypes :
          /\ kContext' = context
          /\ kMaxTokens' = maxTokens
          /\ kTokenizer' = TruncationFor(type)
          /\ kPc' = IF context = << >> THEN "returned"
                    ELSE IF maxTokens <= 0 THEN "raised"
                    ELSE "truncate"
    /\ kFellBack' = FALSE
    /\ kResult' = << >>
    /\ UNCHANGED notTrimVars

\* The tokenizer loads and encodes: the try block returns.
TruncateReturns ==
    /\ kPc = "truncate"
    /\ kResult' = Truncate(kTokenizer, kContext, kMaxTokens)
    /\ kPc' = "returned"
    /\ UNCHANGED <<kContext, kMaxTokens, kTokenizer, kFellBack>>
    /\ UNCHANGED notTrimVars

\* Loading the tokenizer or encoding throws: the catch block returns.
TruncateCatches ==
    /\ kPc = "truncate"
    /\ kResult' = TruncateFallback(kContext, kMaxTokens)
    /\ kFellBack' = TRUE
    /\ kPc' = "returned"
    /\ UNCHANGED <<kContext, kMaxTokens, kTokenizer>>
    /\ UNCHANGED notTrimVars

NextTrim ==
    \/ TrimTokens
    \/ TruncateReturns
    \/ TruncateCatches

\* ========================================================================
\* Text parsing helpers: truncateToCompleteSentence,
\* parseShouldRespondFromText
\* ========================================================================
\* All sequences of up to n elements of a set.
SeqsUpTo(S, n) == UNION {[1..k -> S] : k \in 0..n}

\* Characters of a text to truncate: a letter, a period and a space.
SentenceChars == {"a", ".", " "}

Ellipsis == <<".", ".", ".">>

\* String.prototype.trim
RECURSIVE TrimStart(_)
TrimStart(s) ==
    IF s # << >> /\ Head(s) = " " THEN TrimStart(Tail(s)) ELSE s

RECURSIVE TrimEnd(_)
TrimEnd(s) ==
    IF s # << >> /\ s[Len(s)] = " "
    THEN TrimEnd(SubSeq(s, 1, Len(s) - 1)) ELSE s

StringTrim(s) == TrimEnd(TrimStart(s))

\* s.lastIndexOf(ch, from), as a 0-based index, -1 when there is none; a
\* negative from counts as 0.
LastIndexOf(s, ch, from) ==
    LET pos  == IF from < 0 THEN 0 ELSE from
        hits == {i \in 0..(Len(s) - 1) : i <= pos /\ s[i + 1] = ch}
    IN  IF hits = {} THEN -1
        ELSE CHOOSE i \in hits : \A j \in hits : j <= i

\* s.slice(0, end): a negative end counts from the end of s.
SliceTo(s, end) ==
    LET e == IF end < 0 THEN (IF Len(s) + end < 0 THEN 0 ELSE Len(s) + end)
             ELSE IF end > Len(s) THEN Len(s) ELSE end
    IN  SubSeq(s, 1, e)

\* The last branch of truncateToCompleteSentence.
HardTruncate(text, maxLength) ==
    StringTrim(SliceTo(text, maxLength - 3)) \o Ellipsis

truncateToCompleteSentence(text, maxLength) ==
    IF Len(text) <= maxLength THEN text
    ELSE
    LET lastPeriodIndex   == LastIndexOf(text, ".", maxLength - 1)
        truncatedAtPeriod == StringTrim(SliceTo(text, lastPeriodIndex + 1))
        lastSpaceIndex    == LastIndexOf(text, " ", maxLength - 1)
        truncatedAtSpace  == StringTrim(SliceTo(text, lastSpaceIndex))
    IN  IF lastPeriodIndex # -1 /\ Len(truncatedAtPeriod) > 0
        THEN truncatedAtPeriod
        ELSE IF lastSpaceIndex # -1 /\ Len(truncatedAtSpace) > 0
        THEN truncatedAtSpace \o Ellipsis
        ELSE HardTruncate(text, maxLength)

\* Symbols of a model reply: brackets, a space, a line feed (LF), the three
\* verdict words in upper case, one of them in lower case, another word.
ReplySymbols ==
    {"[", "]", " ", "LF", "RESPOND", "IGNORE", "STOP", "stop", "other"}

ToUpperCase(s) == [i \in 1..Len(s) |-> IF s[i] = "stop" THEN "STOP" ELSE s[i]]

\* text.split("\n")[0]
FirstLine(s) ==
    IF \E i \in 1..Len(s) : s[i] = "LF"
    THEN SubSeq(s, 1, (CHOOSE i \in 1..Len(s) :
                          s[i] = "LF" /\ \A j \in 1..(i - 1) : s[j] # "LF") - 1)
    ELSE s

\* s.replace(ch, ""): the first occurrence only.
ReplaceFirst(s, ch) ==
    IF \E i \in 1..Len(s) : s[i] = ch
    THEN LET i == CHOOSE k \in 1..Len(s) :
                     s[k] = ch /\ \A j \in 1..(k - 1) : s[j] # ch
         IN  SubSeq(s, 1, i - 1) \o SubSeq(s, i + 1, Len(s))
    ELSE s

NoVerdict == "null"

\* The order of the includes() tests.
FallbackOrderIgnoreFirst == <<"IGNORE", "RESPOND", "STOP">>

FallbackOrder == <<"RESPOND", "IGNORE", "STOP">>

\* The line the regular expression /^(RESPOND|IGNORE|STOP)$/i is matched on.
MatchedLine(text) ==
    ReplaceFirst(ToUpperCase(ReplaceFirst(StringTrim(FirstLine(text)), "[")),
                 "]")

parseShouldRespondFromText(text) ==
    LET line == MatchedLine(text)
        found == {k \in 1..Len(FallbackOrder) :
                     \E i \in 1..Len(text) : text[i] = FallbackOrder[k]}
    IN  IF Len(line) = 1 /\ line[1] \in {"RESPOND", "IGNORE", "STOP"}
        THEN line[1]
        ELSE IF found = {} THEN NoVerdict
        ELSE FallbackOrder[CHOOSE k \in found : \A j \in found : k <= j]

InitParse ==
    /\ pOp = "none"
    /\ pText = << >>
    /\ pMaxLength = 0
    /\ pResult = << >>
    /\ pVerdict = NoVerdict

TruncateToCompleteSentence ==
    /\ pOp = "none"
    /\ \E text \in SeqsUpTo(SentenceChars, MaxTextLen),
          maxLength \in 0..MaxLimit :
          /\ pText' = text
          /\ pMaxLength' = maxLength
          /\ pResult' = truncateToCompleteSentence(text, maxLength)
    /\ pOp' = "truncate"
    /\ UNCHANGED pVerdict
    /\ UNCHANGED notParseVars

ParseShouldRespondFromText ==
    /\ pOp = "none"
    /\ \E text \in SeqsUpTo(ReplySymbols, MaxReplyLen) :
          /\ pText' = text
          /\ pVerdict' = parseShouldRespondFromText(text)
    /\ pOp' = "parse"
    /\ UNCHANGED <<pMaxLength, pResult>>
    /\ UNCHANGED notParseVars

NextParse ==
    \/ TruncateToCompleteSentence
    \/ ParseShouldRespondFromText

\* ========================================================================
\* Gateway routing: getCloudflareGatewayBaseURL and its four callers
\* ========================================================================
\* A setting that is not set: getSetting returns a falsy value.
Unset == ""

EnabledValues == {Unset, "true", "false", "TRUE"}

AccountIds == {Unset, "acct1", "acct2"}

GatewayIds == {Unset, "gw1", "gw2"}

\* The providers of the openai and anthropic cases of both switches.
GatewayProviders == {"openai", "anthropic"}

\* The endpoint of a provider when no gateway is used.
NormalEndpoint(provider) ==
    IF provider = "anthropic" THEN "https://api.anthropic.com/v1"
    ELSE "https://api.openai.com/v1"

getCloudflareGatewayBaseURL(settings, provider) ==
    IF settings.enabled # "true" THEN Unset
    ELSE IF settings.accountId = Unset THEN Unset
    ELSE IF settings.gatewayId = Unset THEN Unset
    ELSE "https://gateway.ai.cloudflare.com/v1/" \o settings.accountId
            \o "/" \o settings.gatewayId \o "/" \o provider

\* getCloudflareGatewayBaseURL(...) || endpoint
OrElse(url, fallback) == IF url = Unset THEN fallback ELSE url

\* The base URL the provider client of a text generation is created with.
TextBaseURL(settings, provider) ==
    OrElse(getCloudflareGatewayBaseURL(settings, provider),
           NormalEndpoint(provider))

\* The base URL of a structured-object generation: handleOpenAI creates its
\* client with the URL; handleAnthropic computes the URL, logs it and calls
\* the default anthropic client.
ObjectBaseURL(settings, provider) ==
    IF provider = "anthropic" THEN NormalEndpoint(provider)
    ELSE OrElse(getCloudflareGatewayBaseURL(settings, provider),
                NormalEndpoint(provider))

NoRequest == [kind |-> "none", provider |-> "none", baseURL |-> Unset]

InitGateway ==
    /\ gwSettings = [enabled |-> Unset, accountId |-> Unset, gatewayId |-> Unset]
    /\ gwRequest = NoRequest

\* generateText, cases OPENAI and ANTHROPIC of switch (provider).
GenerateTextRequest ==
    /\ \E e \in EnabledValues, a \in AccountIds, g \in GatewayIds,
          provider \in GatewayProviders :
          LET settings == [enabled |-> e, accountId |-> a, gatewayId |-> g]
          IN  /\ gwSettings' = settings
              /\ gwRequest' = [kind |-> "text", provider |-> provider,
                               baseURL |-> TextBaseURL(settings, provider)]
    /\ UNCHANGED notGwVars

\* generateObject, handleProvider: handleOpenAI and handleAnthropic.
GenerateObjectRequest ==
    /\ \E e \in EnabledValues, a \in AccountIds, g \in GatewayIds,
          provider \in GatewayProviders :
          LET settings == [enabled |-> e, accountId |-> a, gatewayId |-> g]
          IN  /\ gwSettings' = settings
              /\ gwRequest' = [kind |-> "object", provider |-> provider,
                               baseURL |-> ObjectBaseURL(settings, provider)]
    /\ UNCHANGED notGwVars

NextGateway ==
    \/ GenerateTextRequest
    \/ GenerateObjectRequest

\* ========================================================================
\* Knowledge mining of one account (handleTwitterInteractions, 235-444)
\* ========================================================================
\* for (let i = 0; i < validTweets.length; i += 5)
BatchSize == 5

\* analysis.relevanceScore > 0.5, in tenths
RelevanceThreshold == 5

RelevanceScores == {5, 9}

\* validTweets.slice(i, i + 5), as indices of posts.
BatchTweets(i, n) == {p \in 1..n : i < p /\ p <= i + BatchSize}

\* The batch loop reaches i = batch: the next batch is analysed, or the
\* account is done.
MoveToBatch(batch) ==
    IF batch < Len(mScores)
    THEN mPc' = "batch" /\ mBatch' = batch /\ mIdx' = batch + 1
    ELSE mPc' = "done" /\ mBatch' = batch /\ mIdx' = mIdx

\* The post loop reaches post idx of the batch, or the batch is over.
MoveToPost(idx) ==
    IF idx <= Len(mScores) /\ idx <= mBatch + BatchSize
    THEN mPc' = "posts" /\ mBatch' = mBatch /\ mIdx' = idx
    ELSE MoveToBatch(mBatch + BatchSize)

InitMining ==
    /\ mPc = "idle"
    /\ mScores = << >>
    /\ mBatch = 0
    /\ mIdx = 0
    /\ mStored = {}
    /\ mFailed = {}
    /\ mLog = << >>

\* fetchSearchTweets resolves with 1..MaxKnowledgePosts valid posts.
MineAccount ==
    /\ mPc = "idle"
    /\ \E n \in 1..MaxKnowledgePosts :
          \E scores \in [1..n -> RelevanceScores] : mScores' = scores
    /\ mPc' = "batch"
    /\ mBatch' = 0
    /\ mIdx' = 1
    /\ UNCHANGED <<mStored, mFailed, mLog>>
    /\ UNCHANGED notMiningVars

\* generateText resolves and JSON.parse returns the analyses of the batch.
BatchAnalysed ==
    /\ mPc = "batch"
    /\ mPc' = "posts"
    /\ UNCHANGED <<mScores, mBatch, mIdx, mStored, mFailed, mLog>>
    /\ UNCHANGED notMiningVars

\* generateText rejects: the catch of the account logs and continues with
\* the next account.
BatchGenerateRejects ==
    /\ mPc = "batch"
    /\ mFailed' = mFailed \cup BatchTweets(mBatch, Len(mScores))
    /\ mLog' = Append(mLog, "Error processing knowledge tweets")
    /\ mPc' = "done"
    /\ UNCHANGED <<mScores, mBatch, mIdx, mStored>>
    /\ UNCHANGED notMiningVars

\* JSON.parse throws, or the parsed value is no array: the catch of the
\* batch logs, the loop goes on with the next batch.
BatchParseThrows ==
    /\ mPc = "batch"
    /\ mFailed' = mFailed \cup BatchTweets(mBatch, Len(mScores))
    /\ mLog' = Append(mLog, "Error processing batch analysis")
    /\ MoveToBatch(mBatch + BatchSize)
    /\ UNCHANGED <<mScores, mStored>>
    /\ UNCHANGED notMiningVars

\* A post of low relevance is skipped.
PostSkipped ==
    /\ mPc = "posts"
    /\ ~(mScores[mIdx] > RelevanceThreshold)
    /\ MoveToPost(mIdx + 1)
    /\ UNCHANGED <<mScores, mStored, mFailed, mLog>>
    /\ UNCHANGED notMiningVars

\* createKnowledge resolves for a relevant post.
PostStored ==
    /\ mPc = "posts"
    /\ mScores[mIdx] > RelevanceThreshold
    /\ mStored' = mStored \cup {mIdx}
    /\ MoveToPost(mIdx + 1)
    /\ UNCHANGED <<mScores, mFailed, mLog>>
    /\ UNCHANGED notMiningVars

\* Reading the analysis of the post, or createKnowledge, throws: the catch of
\* the batch logs.
PostThrows ==
    /\ mPc = "posts"
    /\ mFailed' = mFailed \cup {mIdx}
    /\ mLog' = Append(mLog, "Error processing batch analysis")
    /\ MoveToBatch(mBatch + BatchSize)
    /\ UNCHANGED <<mScores, mStored>>
    /\ UNCHANGED notMiningVars

NextMining ==
    \/ MineAccount
    \/ BatchAnalysed
    \/ BatchGenerateRejects
    \/ BatchParseThrows
    \/ PostSkipped
    \/ PostStored
    \/ PostThrows

\* ========================================================================
\* buildConversationThread and its inner function processThread
\* ========================================================================
ThreadPosts == 1..MaxThreadPosts

\* if (depth >= maxReplies) return
DepthReachedOffByOne(depth, maxReplies) == depth > maxReplies

DepthReached(depth, maxReplies) == depth >= maxReplies

\* processThread is a function declaration that reads this.runtime and
\* this.twitterClient.  The outermost call is made on processThread.bind(this);
\* the recursive call is a plain call of processThread, whose this is
\* undefined.
ThisBound(depth) == depth = 0

\* depth of the call on top of the stack
TopDepth == Len(vStack) - 1

TopFrame == vStack[Len(vStack)]

Pop(stack) == SubSeq(stack, 1, Len(stack) - 1)

\* The call on top of the stack is over: normally, or by an exception when
\* thrown is TRUE.  The caller awaits it inside a try block whose catch only
\* logs; the outermost call settles buildConversationThread.
FrameEnds(thrown) ==
    IF Len(vStack) = 1
    THEN /\ vStack' = << >>
         /\ vPc' = IF thrown THEN "rejected" ELSE "returned"
    ELSE /\ vStack' = [Pop(vStack) EXCEPT ![Len(vStack) - 1].stage = "afterChild"]
         /\ UNCHANGED vPc

InitThread ==
    /\ vPc = "idle"
    /\ vParent = [p \in ThreadPosts |-> 0]
    /\ vMaxReplies = 0
    /\ vStack = << >>
    /\ vVisited = {}
    /\ vThread = << >>
    /\ vStored = {}

\* buildConversationThread(tweet, maxReplies) is called on some reply graph.
BuildThread ==
    /\ vPc = "idle"
    /\ \E parent \in [ThreadPosts -> {0} \cup ThreadPosts],
          tweet \in ThreadPosts, maxReplies \in 0..MaxReplies :
          /\ vParent' = parent
          /\ vMaxReplies' = maxReplies
          /\ vStack' = <<[tweet |-> tweet, stage |-> "entry"]>>
    /\ vPc' = "running"
    /\ UNCHANGED <<vVisited, vThread, vStored>>
    /\ UNCHANGED notThreadVars

\* processThread from its first statement to the fetch of the parent, when
\* nothing throws.
ProcessThread ==
    /\ vPc = "running"
    /\ TopFrame.stage = "entry"
    /\ ThisBound(TopDepth) \/ DepthReached(TopDepth, vMaxReplies)
    /\ LET tweet == TopFrame.tweet
       IN  IF DepthReached(TopDepth, vMaxReplies)
           THEN /\ FrameEnds(FALSE)
                /\ UNCHANGED <<vVisited, vThread, vStored>>
           ELSE /\ \E memory \in BOOLEAN :
                      vStored' = IF memory THEN vStored ELSE vStored \cup {tweet}
                /\ IF tweet \in vVisited
                   THEN /\ FrameEnds(FALSE)
                        /\ UNCHANGED <<vVisited, vThread>>
                   ELSE /\ vVisited' = vVisited \cup {tweet}
                        /\ vThread' = <<tweet>> \o vThread
                        /\ IF vParent[tweet] # 0
                           THEN /\ vStack' = [vStack EXCEPT
                                                 ![Len(vStack)].stage = "getTweet"]
                                /\ UNCHANGED vPc
                           ELSE FrameEnds(FALSE)
    /\ UNCHANGED <<vParent, vMaxReplies>>
    /\ UNCHANGED notThreadVars

\* getMemoryById or ensureConnection rejects, or this is undefined when
\* this.runtime is read: processThread throws before it touches the thread.
ProcessThreadThrows ==
    /\ vPc = "running"
    /\ TopFrame.stage = "entry"
    /\ ~DepthReached(TopDepth, vMaxReplies)
    /\ FrameEnds(TRUE)
    /\ UNCHANGED <<vParent, vMaxReplies, vVisited, vThread, vStored>>
    /\ UNCHANGED notThreadVars

\* getTweet resolves with the parent: processThread(parentTweet, depth + 1).
GetTweetResolves ==
    /\ vPc = "running"
    /\ TopFrame.stage = "getTweet"
    /\ vStack' = Append([vStack EXCEPT ![Len(vStack)].stage = "awaitChild"],
                        [tweet |-> vParent[TopFrame.tweet], stage |-> "entry"])
    /\ UNCHANGED <<vPc, vParent, vMaxReplies, vVisited, vThread, vStored>>
    /\ UNCHANGED notThreadVars

\* getTweet resolves with no post, or rejects and the catch logs.
GetTweetFails ==
    /\ vPc = "running"
    /\ TopFrame.stage = "getTweet"
    /\ FrameEnds(FALSE)
    /\ UNCHANGED <<vParent, vMaxReplies, vVisited, vThread, vStored>>
    /\ UNCHANGED notThreadVars

\* The recursive call has returned or thrown into the catch: the call ends.
AfterChild ==
    /\ vPc = "running"
    /\ TopFrame.stage = "afterChild"
    /\ FrameEnds(FALSE)
    /\ UNCHANGED <<vParent, vMaxReplies, vVisited, vThread, vStored>>
    /\ UNCHANGED notThreadVars

NextThread ==
    \/ BuildThread
    \/ ProcessThread
    \/ ProcessThreadThrows
    \/ GetTweetResolves
    \/ GetTweetFails
    \/ AfterChild

\* ========================================================================
\* createPrediction and the prediction contract
\* ========================================================================
\* the overlapping calls of createPrediction of this agent
PredictionCalls == 1..MaxOverlappingCalls

OtherAccount == 0

\* The awaited calls of createPrediction in program order; "included" is the
\* wait for the receipt before the transaction is in a block, "wait" after.
PredictionSteps ==
    << "readPredictionCount", "simulate", "prepare", "sign", "broadcast",
       "included", "wait" >>

PredictionStepAfter(step) ==
    LET i == CHOOSE k \in 1..Len(PredictionSteps) : PredictionSteps[k] = step
    IN  PredictionSteps[i + 1]

\* The contract numbers predictions in the order in which their transactions
\* are executed: the new prediction gets the value of predictionCount, which
\* is then incremented.
ContractCreatePrediction(creator) ==
    /\ pdCount < MaxPredictions
    /\ pdCreator' = Append(pdCreator, creator)
    /\ pdCount' = pdCount + 1

\* return nextPredictionId
ReturnedId(call) == pdRead[call]

InitPred ==
    /\ pdCount = 0
    /\ pdCreator = << >>
    /\ pdPc = [call \in PredictionCalls |-> "idle"]
    /\ pdRead = [call \in PredictionCalls |-> {}]
    /\ pdAssigned = [call \in PredictionCalls |-> {}]
    /\ pdResult = [call \in PredictionCalls |-> {}]

\* createPrediction is called; initWalletProvider resolves.
CreatePrediction ==
    /\ \E call \in PredictionCalls :
          /\ pdPc[call] = "idle"
          /\ pdPc' = [pdPc EXCEPT ![call] = "readPredictionCount"]
    /\ UNCHANGED <<pdCount, pdCreator, pdRead, pdAssigned, pdResult>>
    /\ UNCHANGED notPredVars

\* readContract predictionCount resolves with the count of the latest block.
PredictionCountRead ==
    /\ \E call \in PredictionCalls :
          /\ pdPc[call] = "readPredictionCount"
          /\ pdRead' = [pdRead EXCEPT ![call] = {pdCount}]
          /\ pdPc' = [pdPc EXCEPT ![call] = "simulate"]
    /\ UNCHANGED <<pdCount, pdCreator, pdAssigned, pdResult>>
    /\ UNCHANGED notPredVars

\* simulateContract, prepareTransactionRequest, signTransaction or
\* sendRawTransaction resolves.
PredictionStepResolves ==
    /\ \E call \in PredictionCalls :
          /\ pdPc[call] \in {"simulate", "prepare", "sign", "broadcast"}
          /\ pdPc' = [pdPc EXCEPT ![call] = PredictionStepAfter(pdPc[call])]
    /\ UNCHANGED <<pdCount, pdCreator, pdRead, pdAssigned, pdResult>>
    /\ UNCHANGED notPredVars

\* An awaited call rejects: the simulation reverts, or the transport fails
\* before the transaction is sent.
PredictionStepRejects ==
    /\ \E call \in PredictionCalls :
          /\ pdPc[call] \in {"readPredictionCount", "simulate", "prepare",
                             "sign", "broadcast"}
          /\ pdPc' = [pdPc EXCEPT ![call] = "raised"]
    /\ UNCHANGED <<pdCount, pdCreator, pdRead, pdAssigned, pdResult>>
    /\ UNCHANGED notPredVars

\* The transaction of a call is executed in a block and succeeds.
PredictionTxIncluded ==
    /\ \E call \in PredictionCalls :
          /\ pdPc[call] = "included"
          /\ ContractCreatePrediction(call)
          /\ pdAssigned' = [pdAssigned EXCEPT ![call] = {pdCount}]
          /\ pdPc' = [pdPc EXCEPT ![call] = "wait"]
    /\ UNCHANGED <<pdRead, pdResult>>
    /\ UNCHANGED notPredVars

\* The transaction of a call is executed and reverts: receipt.status is not
\* "success" and the call throws.
PredictionTxReverts ==
    /\ \E call \in PredictionCalls :
          /\ pdPc[call] = "included"
          /\ pdPc' = [pdPc EXCEPT ![call] = "raised"]
    /\ UNCHANGED <<pdCount, pdCreator, pdRead, pdAssigned, pdResult>>
    /\ UNCHANGED notPredVars

\* waitForTransactionReceipt resolves with a success receipt.
PredictionReceipt ==
    /\ \E call \in PredictionCalls :
          /\ pdPc[call] = "wait"
          /\ pdResult' = [pdResult EXCEPT ![call] = ReturnedId(call)]
          /\ pdPc' = [pdPc EXCEPT ![call] = "returned"]
    /\ UNCHANGED <<pdCount, pdCreator, pdRead, pdAssigned>>
    /\ UNCHANGED notPredVars

\* A transaction of another account creates a prediction.
OtherAccountCreates ==
    /\ ContractCreatePrediction(OtherAccount)
    /\ UNCHANGED <<pdPc, pdRead, pdAssigned, pdResult>>
    /\ UNCHANGED notPredVars

NextPred ==
    \/ CreatePrediction
    \/ PredictionCountRead
    \/ PredictionStepResolves
    \/ PredictionStepRejects
    \/ PredictionTxIncluded
    \/ PredictionTxReverts
    \/ PredictionReceipt
    \/ OtherAccountCreates

\* ========================================================================
\* Poll cycles started by the timer of start()
\* ========================================================================
PollCycles == 1..MaxPollCycles

\* Posts of other users that mention the agent and have text.
SourcePosts == 1..MaxSourcePosts

\* The awaited calls in which a cycle works on its current candidate, after
\* the lookup of the candidate's memory, in program order.
HandlingSteps ==
    << "ensureConnection", "buildConversationThread", "handleTweet",
       "sendTweet" >>

Handling(cycle) == \E i \in 1..Len(HandlingSteps) : ovPc[cycle] = HandlingSteps[i]

OvCur(cycle) == Head(ovCands[cycle])

RECURSIVE SkipChecked(_, _)
\* for (const tweet of uniqueTweetCandidates) with the test on the marker:
\* the candidates not newer than the marker are passed over.
SkipChecked(list, marker) ==
    IF list = << >> THEN << >>
    ELSE IF marker = 0 \/ Head(list) > marker THEN list
    ELSE SkipChecked(Tail(list), marker)

\* The loop goes on from list: the lookup of the next candidate newer than
\* the marker is started, or the loop is over and the marker is cached.
ContinueLoop(cycle, list, marker) ==
    LET rest == SkipChecked(list, marker)
    IN  /\ ovCands' = [ovCands EXCEPT ![cycle] = rest]
        /\ ovPc' = [ovPc EXCEPT ![cycle] =
                       IF rest = << >> THEN "persist" ELSE "getMemoryById"]

InitOverlap ==
    /\ ovStarted = 0
    /\ ovPc = [cycle \in PollCycles |-> "idle"]
    /\ ovCands = [cycle \in PollCycles |-> << >>]
    /\ ovMarker = 0
    /\ ovMemories = {}
    /\ ovReplies = [post \in SourcePosts |-> 0]

\* handleTwitterInteractionsLoop runs: it calls handleTwitterInteractions
\* without awaiting it and arms the timer for the next run.
TimerFires ==
    /\ ovStarted < MaxPollCycles
    /\ ovStarted' = ovStarted + 1
    /\ ovPc' = [ovPc EXCEPT ![ovStarted + 1] = "fetch"]
    /\ UNCHANGED <<ovCands, ovMarker, ovMemories, ovReplies>>
    /\ UNCHANGED notOverlapVars

\* The searches of the cycle resolve; the candidates are sorted and the loop
\* starts.
SearchResolves ==
    /\ \E cycle \in PollCycles :
          /\ ovPc[cycle] = "fetch"
          /\ \E mentions \in SUBSET SourcePosts :
                ContinueLoop(cycle, SortCandidates(SetToSeq(mentions)), ovMarker)
    /\ UNCHANGED <<ovStarted, ovMarker, ovMemories, ovReplies>>
    /\ UNCHANGED notOverlapVars

\* getMemoryById of the candidate resolves: a hit goes to the next
\* candidate, a miss starts ensureConnection.
LookupResolves ==
    /\ \E cycle \in PollCycles :
          /\ ovPc[cycle] = "getMemoryById"
          /\ IF OvCur(cycle) \in ovMemories
             THEN ContinueLoop(cycle, Tail(ovCands[cycle]), ovMarker)
             ELSE /\ ovPc' = [ovPc EXCEPT ![cycle] = "ensureConnection"]
                  /\ UNCHANGED ovCands
    /\ UNCHANGED <<ovStarted, ovMarker, ovMemories, ovReplies>>
    /\ UNCHANGED notOverlapVars

\* ensureConnection resolves and buildConversationThread is called.
ConnectionEnsured ==
    /\ \E cycle \in PollCycles :
          /\ ovPc[cycle] = "ensureConnection"
          /\ ovPc' = [ovPc EXCEPT ![cycle] = "buildConversationThread"]
    /\ UNCHANGED <<ovStarted, ovCands, ovMarker, ovMemories, ovReplies>>
    /\ UNCHANGED notOverlapVars

\* buildConversationThread resolves, the memory of the candidate is stored,
\* and handleTweet is called.
ThreadBuilt ==
    /\ \E cycle \in PollCycles :
          /\ ovPc[cycle] = "buildConversationThread"
          /\ ovMemories' = ovMemories \cup {OvCur(cycle)}
          /\ ovPc' = [ovPc EXCEPT ![cycle] = "handleTweet"]
    /\ UNCHANGED <<ovStarted, ovCands, ovMarker, ovReplies>>
    /\ UNCHANGED notOverlapVars

\* The candidate is done: handleTweet has returned, the marker is set to
\* the candidate and the loop goes on.
CandidateDone(cycle) ==
    /\ ovMarker' = OvCur(cycle)
    /\ ContinueLoop(cycle, Tail(ovCands[cycle]), OvCur(cycle))

\* handleTweet up to the generated response: the verdict is not RESPOND or
\* the response has no text and handleTweet returns, or the reply is sent.
ResponseGenerated ==
    /\ \E cycle \in PollCycles :
          /\ ovPc[cycle] = "handleTweet"
          /\ \E respond \in BOOLEAN :
                IF respond
                THEN /\ ovPc' = [ovPc EXCEPT ![cycle] = "sendTweet"]
                     /\ UNCHANGED <<ovCands, ovMarker>>
                ELSE CandidateDone(cycle)
    /\ UNCHANGED <<ovStarted, ovMemories, ovReplies>>
    /\ UNCHANGED notOverlapVars

\* sendTweet resolves: the reply to the candidate is posted, and the rest
\* of handleTweet runs.
ReplySent ==
    /\ \E cycle \in PollCycles :
          /\ ovPc[cycle] = "sendTweet"
          /\ ovReplies' = [ovReplies EXCEPT ![OvCur(cycle)] = @ + 1]
          /\ CandidateDone(cycle)
    /\ UNCHANGED <<ovStarted, ovMemories>>
    /\ UNCHANGED notOverlapVars

\* An awaited call of the loop rejects: the catch of
\* handleTwitterInteractions logs and the cycle is over.
CycleRejects ==
    /\ \E cycle \in PollCycles :
          /\ ovPc[cycle] \in {"fetch", "getMemoryById", "ensureConnection",
                              "buildConversationThread", "persist"}
          /\ ovPc' = [ovPc EXCEPT ![cycle] = "done"]
          /\ ovCands' = [ovCands EXCEPT ![cycle] = << >>]
    /\ UNCHANGED <<ovStarted, ovMarker, ovMemories, ovReplies>>
    /\ UNCHANGED notOverlapVars

\* cacheLatestCheckedTweetId resolves and the cycle is over.
MarkerCached ==
    /\ \E cycle \in PollCycles :
          /\ ovPc[cycle] = "persist"
          /\ ovPc' = [ovPc EXCEPT ![cycle] = "done"]
    /\ UNCHANGED <<ovStarted, ovCands, ovMarker, ovMemories, ovReplies>>
    /\ UNCHANGED notOverlapVars

NextOverlap ==
    \/ TimerFires
    \/ SearchResolves
    \/ LookupResolves
    \/ ConnectionEnsured
    \/ ThreadBuilt
    \/ ResponseGenerated
    \/ ReplySent
    \/ CycleRejects
    \/ MarkerCached

\* ========================================================================
\* Concurrent requests to /:agentId/message
\* ========================================================================
ChatRequests == 1..MaxRequests

TurnAgentId == "agent"

\* genUserId(req) of the requests: two users, and the id of the agent.
TurnUserIds == {"user", "user2", TurnAgentId}

\* id: stringToUuid(messageId + "-" + userId)
TurnInboundId(messageId, userId) == stringToUuid(messageId \o "-" \o userId)

\* id: stringToUuid(messageId + "-" + agentId)
TurnOutboundId(messageId, userId) == stringToUuid(messageId \o "-" \o TurnAgentId)

\* The row of a memory: turn and kind stand for its content, userId and
\* createdAt.
TurnRow(id, turn, kind) == [id |-> id, turn |-> turn, kind |-> kind]

InitTurn ==
    /\ tnClock = 1
    /\ tnPc = [r \in ChatRequests |-> "idle"]
    /\ tnUser = [r \in ChatRequests |-> ""]
    /\ tnMessageId = [r \in ChatRequests |-> ""]
    /\ tnMemories = {}

\* A millisecond passes.
ClockTicks ==
    /\ tnClock < MaxClock
    /\ tnClock' = tnClock + 1
    /\ UNCHANGED <<tnPc, tnUser, tnMessageId, tnMemories>>
    /\ UNCHANGED notTurnVars

\* A request arrives: handle() computes userId and calls ensureConnection.
TurnArrives ==
    /\ \E r \in ChatRequests, userId \in TurnUserIds :
          /\ tnPc[r] = "idle"
          /\ tnUser' = [tnUser EXCEPT ![r] = userId]
          /\ tnPc' = [tnPc EXCEPT ![r] = "ensureConnection"]
    /\ UNCHANGED <<tnClock, tnMessageId, tnMemories>>
    /\ UNCHANGED notTurnVars

\* ensureConnection and composeContent have resolved: messageId is computed
\* from the clock and createMemory is called for the inbound memory.
TurnStamped ==
    /\ \E r \in ChatRequests :
          /\ tnPc[r] = "ensureConnection"
          /\ tnMessageId' = [tnMessageId EXCEPT ![r] = MessageId(tnClock)]
          /\ tnPc' = [tnPc EXCEPT ![r] = "createInbound"]
    /\ UNCHANGED <<tnClock, tnUser, tnMemories>>
    /\ UNCHANGED notTurnVars

\* createMemory of the inbound memory resolves: the row is written.
TurnInboundStored ==
    /\ \E r \in ChatRequests :
          /\ tnPc[r] = "createInbound"
          /\ tnMemories' = InsertOrReplace(tnMemories,
                 TurnRow(TurnInboundId(tnMessageId[r], tnUser[r]), r, "inbound"))
          /\ tnPc' = [tnPc EXCEPT ![r] = "genResponse"]
    /\ UNCHANGED <<tnClock, tnUser, tnMessageId>>
    /\ UNCHANGED notTurnVars

\* composeState and genResponse resolve: the response is written to res and
\* createMemory is called for the outbound memory.
TurnResponds ==
    /\ \E r \in ChatRequests :
          /\ tnPc[r] = "genResponse"
          /\ tnPc' = [tnPc EXCEPT ![r] = "createOutbound"]
    /\ UNCHANGED <<tnClock, tnUser, tnMessageId, tnMemories>>
    /\ UNCHANGED notTurnVars

\* createMemory of the outbound memory resolves: the row is written; the
\* actions and evaluators run and the stream is ended.
TurnOutboundStored ==
    /\ \E r \in ChatRequests :
          /\ tnPc[r] = "createOutbound"
          /\ tnMemories' = InsertOrReplace(tnMemories,
                 TurnRow(TurnOutboundId(tnMessageId[r], tnUser[r]), r, "outbound"))
          /\ tnPc' = [tnPc EXCEPT ![r] = "ended"]
    /\ UNCHANGED <<tnClock, tnUser, tnMessageId>>
    /\ UNCHANGED notTurnVars

\* An awaited call of handle() rejects: handleMessage writes the error event.
TurnFails ==
    /\ \E r \in ChatRequests :
          /\ tnPc[r] \in {"ensureConnection", "createInbound", "genResponse",
                          "createOutbound"}
          /\ tnPc' = [tnPc EXCEPT ![r] = "failed"]
    /\ UNCHANGED <<tnClock, tnUser, tnMessageId, tnMemories>>
    /\ UNCHANGED notTurnVars

NextTurn ==
    \/ ClockTicks
    \/ TurnArrives
    \/ TurnStamped
    \/ TurnInboundStored
    \/ TurnResponds
    \/ TurnOutboundStored
    \/ TurnFails

Init == InitMessage /\ InitTwitter /\ InitRetry /\ InitDb /\ InitChain
        /\ InitGen
        /\ InitDaily
        /\ InitStream
        /\ InitRecommender
        /\ InitAdapter
        /\ InitTrim
        /\ InitParse
        /\ InitGateway
        /\ InitMining
        /\ InitThread
        /\ InitPred
        /\ InitOverlap
        /\ InitTurn

SpecMessage == Init /\ [][NextMessage]_vars

HandlerFinished == \/ hPc = Len(HandleStages) + 1
                   \/ hPc = 0 /\ hTurns > 0

\* The stages of a run, without the data events of the action callbacks.
Skeleton(log) == SelectSeq(log, LAMBDA x : x # "callbackData")

FixedOrder ==
    << "getRuntime", "ensureConnection", "composeContent",
       "createInboundMemory", "composeState", "genResponse",
       "writeResponse", "createOutboundMemory",
       "updateRecentMessageState", "processActions", "evaluate",
       "writeEnd" >>

Before(log, x, y) ==
    \A j \in Positions(log, y) : \E i \in Positions(log, x) : i < j

\* C1: in a run of the /:agentId/message handler that raises no error the
\* steps happen in the fixed order inbound memory persisted, reply data event
\* written, outbound memory persisted, state refreshed, action handlers
\* invoked (callback data events written meanwhile), evaluators run, end
\* event written and stream closed; no data event follows the end event.
C1_FixedOrder ==
    /\ IsPrefix(Skeleton(hLog), FixedOrder)
    /\ Before(hLog, "updateRecentMessageState", "callbackData")
    /\ \A i \in Positions(hLog, "callbackData") :
          \A j \in Positions(hLog, "processActions") : i < j
    /\ (HandlerFinished /\ hError = NoError) =>
          /\ Skeleton(hLog) = FixedOrder
          /\ resEnded
          /\ sse[Len(sse)] = EndEvent
          /\ sse[1] = DataEvent("response")
          /\ Len(sse) = 2 + Cardinality(Positions(hLog, "callbackData"))
    /\ \A i \in 1..Len(sse) : sse[i].type = "end" => i = Len(sse)
    /\ Cardinality(Positions(hLog, "createInboundMemory")) = 0
          => Cardinality({i \in 1..Len(sse) : sse[i].type = "data"}) = 0
    /\ Cardinality(Positions(hLog, "createOutboundMemory")) = 1
          => Cardinality({i \in 1..Len(sse) : sse[i].type = "data"}) >= 1

C1_Witness ==
    /\ HandlerFinished
    /\ hError = NoError
    /\ Cardinality(Positions(hLog, "callbackData")) = MaxCallbacks

\* C2: when a stage of the /:agentId/message handler raises (an unregistered
\* agent id included, message "Agent not found"), the stream receives exactly
\* one error event carrying the message, is closed, receives no end event,
\* and nothing escapes handleMessage.
C2_SingleErrorEvent ==
    /\ ~hEscaped
    /\ hError # NoError =>
          /\ HandlerFinished
          /\ resEnded
          /\ Cardinality({i \in 1..Len(sse) : sse[i].type = "error"}) = 1
          /\ sse[Len(sse)] = ErrorEvent(hError)
          /\ \A i \in 1..Len(sse) : sse[i].type # "end"
    /\ (hError # NoError /\ hAgent \notin RegisteredAgents) =>
          sse = << ErrorEvent("Agent not found") >>
    /\ (HandlerFinished /\ Skeleton(hLog) # FixedOrder) => hError # NoError

C2_Witness ==
    /\ HandlerFinished
    /\ hError = "failed: processActions"
    /\ Cardinality({i \in 1..Len(sse) : sse[i].type = "data"}) = 2

C2_WitnessAgentNotFound ==
    /\ HandlerFinished
    /\ hError = "Agent not found"

SpecTwitter == Init /\ [][NextTwitter]_vars

\* What the loop does with a candidate whose memory is found.
C3_Skip ==
    (tPc = "body" /\ TStage = "getMemoryById" /\ cur \in tMemories)
       => /\ tPc' \in {"loopHead", "idle"}
          /\ replies' = replies
          /\ classified' = classified
          /\ tSub' = "none"

SpecRetry == Init /\ [][NextRetry]_vars

RECURSIVE SumSeq(_)
SumSeq(q) == IF q = << >> THEN 0 ELSE Head(q) + SumSeq(Tail(q))

C4_MarkerStep ==
    /\ lastCheckedTweetId' # lastCheckedTweetId =>
          \/ lastCheckedTweetId' = cur /\ cur \in handled
          \/ lastCheckedTweetId' = cachedMarker /\ crashes' = crashes + 1
    /\ cachedMarker' # cachedMarker =>
          /\ cachedMarker' = lastCheckedTweetId
          /\ tPc = "persist"
    /\ (tPc = "body" /\ tPc' = "idle") =>
          /\ cachedMarker' = cachedMarker
          /\ lastCheckedTweetId' \in {lastCheckedTweetId, cachedMarker}
          /\ cur \notin handled => lastCheckedTweetId' # cur

\* C4: the in-memory last-processed id is set to a candidate's id only after
\* handleTweet has returned for that candidate, the cached value is never the
\* id of a candidate whose processing has not completed, and when processing
\* a candidate raises neither marker moves to that candidate's id.
C4_MarkerAfterCompletion ==
    /\ [](/\ lastCheckedTweetId # 0 => lastCheckedTweetId \in handled
          /\ cachedMarker # 0 => cachedMarker \in handled)
    /\ [][C4_MarkerStep]_vars

\* A candidate's processing raised after an earlier candidate of the same
\* cycle had moved the in-memory marker; the cache still holds the old value.
C4_Witness ==
    /\ tPc = "idle"
    /\ crashes = 0
    /\ lastCheckedTweetId # 0
    /\ cachedMarker = 0
    /\ \E id \in tMemories : id \notin handled /\ classified[id] = 1

SpecDb == Init /\ [][NextDb]_vars

RowsWithId(table, id) == {r \in table : r.id = id}

\* C6: the memories table holds at most one row per memory id; a createMemory
\* whose id is already stored replaces that row with the values of the new
\* call and leaves the rows of other ids unchanged.
C6_CreateMemoryReplaces ==
    /\ \A id \in MemoryIds : Cardinality(RowsWithId(memories, id)) <= 1
    /\ (dbLast.op = "createMemory" /\ dbLast.outcome = "returned") =>
          /\ RowsWithId(memories, dbLast.id) = {dbLast.row}
          /\ {r \in memories : r.id # dbLast.id}
                = {r \in dbPrev.memories : r.id # dbLast.id}
          /\ Cardinality(memories) = Cardinality(dbPrev.memories)
                + (IF dbLast.existed THEN 0 ELSE 1)

C6_Witness ==
    /\ dbLast.op = "createMemory"
    /\ dbLast.outcome = "returned"
    /\ dbLast.existed
    /\ dbLast.row \notin dbPrev.memories
    /\ Cardinality(memories) = 2

\* C7: createKnowledge called twice with the same id and isShared: true
\* returns normally both times and leaves exactly one row for the id: the row
\* of the first call, without owning agent id, unchanged by the second call.
C7_SharedKnowledgeOnce ==
    /\ \A id \in KnowledgeIds : Cardinality(RowsWithId(knowledge, id)) <= 1
    /\ \A r \in knowledge : r.isShared = 1 => r.agentId = NULL
    /\ (dbLast.op = "createKnowledge" /\ dbLast.isShared) =>
          /\ dbLast.outcome = "returned"
          /\ dbLast.collided => knowledge = dbPrev.knowledge
          /\ (~dbLast.collided /\ dbLast.error = "none") =>
                /\ RowsWithId(knowledge, dbLast.id)
                      = {[id |-> dbLast.id, agentId |-> NULL,
                          content |-> dbLast.content, isShared |-> 1]}
                /\ knowledge \ RowsWithId(knowledge, dbLast.id) = dbPrev.knowledge

\* The second of two shared calls for one id, with other content, has returned.
C7_Witness ==
    /\ dbLast.op = "createKnowledge"
    /\ dbLast.isShared
    /\ dbLast.collided
    /\ dbLast.error = "SQLITE_CONSTRAINT_PRIMARYKEY"
    /\ \E r \in knowledge :
          /\ r.id = dbLast.id
          /\ r.isShared = 1
          /\ r.content # dbLast.content

SpecChain == Init /\ [][NextChain]_vars

Min(a, b) == IF a < b THEN a ELSE b

\* C9: for every requested amount, allowance, minimum and maximum bet,
\* placeBet raises before any simulation, signature or broadcast when the
\* allowance is zero, the amount is below the minimum or the allowance is
\* below min(requested, maximum); otherwise the amount simulated and sent is
\* min(requested, maximum).
C9_BetAmount ==
    (cOp = "placeBet" /\ cIn.read) =>
        IF \/ cIn.allowance = 0
           \/ cIn.amount < cIn.minBet
           \/ cIn.allowance < Min(cIn.amount, cIn.maxBet)
        THEN /\ cOutcome = "raised"
             /\ cSteps = << >>
             /\ cArgs = NoArgs
        ELSE /\ cBetAmount = Min(cIn.amount, cIn.maxBet)
             /\ "getBetAmount" \in Range(cSteps)
             /\ "simulate" \in Range(cSteps) => cArgs.simulated = Min(cIn.amount, cIn.maxBet)
             /\ "broadcast" \in Range(cSteps) => cArgs.sent = Min(cIn.amount, cIn.maxBet)

\* A request above the maximum bet has been clamped and sent.
C9_Witness ==
    /\ cOp = "placeBet"
    /\ cOutcome = "returned"
    /\ cIn.amount > cIn.maxBet
    /\ cArgs.sent = cIn.maxBet

TxOrder == << "simulate", "encode", "sign", "broadcast", "wait" >>

NamedSteps(steps) == SelectSeq(steps, LAMBDA x : x \in Range(TxOrder))

\* C10: createPrediction, placeBet and resolvePrediction simulate, encode,
\* sign and broadcast in that order (createPrediction and placeBet then wait
\* for one confirmation); when the simulation reverts the call raises and
\* nothing is signed or broadcast.
C10_SimulateFirst ==
    /\ IsPrefix(NamedSteps(cSteps), TxOrder)
    /\ cOp = "resolvePrediction" => "wait" \notin Range(cSteps)
    /\ (cOp \in TxOps /\ cOutcome = "returned") =>
          NamedSteps(cSteps) = IF cOp = "resolvePrediction"
                               THEN SubSeq(TxOrder, 1, 4) ELSE TxOrder
    /\ cIn.reverted =>
          /\ cOutcome = "raised"
          /\ "sign" \notin Range(cSteps)
          /\ "broadcast" \notin Range(cSteps)

C10_Witness ==
    /\ cOp = "createPrediction"
    /\ cOutcome = "returned"
    /\ Len(cSteps) = 7

SpecGen == Init /\ [][NextGen]_vars

SpecDaily == Init /\ [][NextDaily]_vars

FailedKeys == {k \in MetricKeys : dResults[k] # Pending /\ dResults[k].value = Null}

\* C12: for an accepted date and any set of failing fetchers, getDailyData
\* returns instead of raising; the field of each failed metric is 0, every
\* other field holds the number its own fetcher resolved with, and each
\* failure has exactly one error line.
C12_FailedMetricsZero ==
    /\ (DateAccepted(dDate) /\ dRuns > 0) => dPc # "raised"
    /\ dPc = "returned" =>
          /\ dStats.date = dDate
          /\ \A k \in MetricKeys :
                IF k \in FailedKeys THEN dStats[METRICS[k]] = 0
                ELSE /\ dStats[METRICS[k]] = dResults[k].value[1]
                     /\ dStats[METRICS[k]] \in FetchValues(k, dDate)
          /\ \A k \in MetricKeys :
                Cardinality(Positions(dErrorLog, k))
                    = (IF k \in FailedKeys THEN 1 ELSE 0)

C12_Witness ==
    /\ dPc = "returned"
    /\ FailedKeys = {"TX_VOLUME", "HOLDERS"}
    /\ dStats.tx_volume = 0
    /\ dStats.holders = 0
    /\ dStats.tvl = 10 * KeyIndex("TVL") + (dDate - Yesterday)
    /\ dErrorLog = <<"TX_VOLUME", "HOLDERS">>

SpecStream == Init /\ [][NextStream]_vars

\* Rows the agent authored: the outbound memories.
OutboundStored == {r \in sMemories : r.userId = StreamAgentId}

\* C13: after a turn whose stream resolved and whose outbound saves have all
\* completed, the number of outbound rows stored equals the number of
\* text-typed parts of the assistant messages.
C13_OneMemoryPerTextPart ==
    (StreamFinished /\ sMessages # << >> /\ sPending = {} /\ sFailures = 0) =>
        Cardinality(OutboundStored) = Cardinality(TextParts(sMessages))

\* C14: every outbound memory stored by the handler has inReplyTo equal to
\* the id of the inbound memory the same request stored.
C14_InReplyToInbound ==
    \A r \in OutboundStored : r.inReplyTo = sInboundId

\* C15: every failure, a failed outbound save included, is written to the
\* response as an error event by the catch of handleMessageStream; no
\* rejection is left without a handler.
C15_EveryFailureCaught ==
    /\ sUnhandled = 0
    /\ sFailures > 0 => "error" \in Range(sEvents)

\* C16: in dry-run mode handleTweet, whatever the candidate and the
\* should-respond verdict, sends no tweet, creates no outbound memory, runs
\* no post-action and caches no transcript; the response is only logged.
C16_DryRunOnlyLogs ==
    isDryRun =>
        \A id \in TweetIds :
            /\ replies[id] = 0
            /\ effects[id] \subseteq {"dryRunLog"}

C16_Witness ==
    /\ isDryRun
    /\ \E id \in TweetIds :
          /\ id \in handled
          /\ classified[id] = 1
          /\ effects[id] = {"dryRunLog"}

SpecRecommender == Init /\ [][NextRecommender]_vars

FailedAttempts == Cardinality({i \in 1..Len(bLog) : bLog[i][1] = "attemptFailed"})

\* C17: getOrCreateRecommenderInBe makes at most 3 requests and never
\* raises; it returns the parsed body of the first request that succeeds;
\* it sleeps 2000 ms after a failed attempt exactly when another attempt
\* follows; after 3 failed attempts it returns no value.
C17_ThreeAttemptsFixedDelay ==
    /\ bRequests <= 3
    /\ bPc # "raised"
    /\ \A i \in 1..Len(bWaits) : bWaits[i] = 2000
    /\ bPc = "attempt" => Len(bWaits) = bRequests
    /\ bPc = "returned" =>
          IF bResult # NoValue
          THEN /\ bResult \in RecommenderBodies
               /\ FailedAttempts = bRequests - 1
               /\ Len(bWaits) = bRequests - 1
          ELSE /\ bRequests = 3
               /\ FailedAttempts = 3
               /\ Len(bWaits) = 2
               /\ bLog[Len(bLog)][1] = "allFailed"

C17_Witness ==
    /\ bPc = "returned"
    /\ bResult = NoValue
    /\ bRequests = 3
    /\ bWaits = <<2000, 2000>>

SpecAdapter == Init /\ [][NextAdapter]_vars

\* C19: each of createAccount, addParticipant, removeParticipant,
\* createRelationship, setCache and deleteCache, when its statement fails,
\* returns false rather than raising and leaves the stored rows as they were.
C19_FailedMutationReturnsFalse ==
    (aLast.op \in BooleanMutations /\ aLast.statementFailed) =>
        /\ aLast.outcome = "false"
        /\ AdapterTables = aPrev

SpecTrim == Init /\ [][NextTrim]_vars

ContextTokens == EncodeTokens(kTokenizer, kContext)

\* The last n tokens of the context, for n below its token count.
LastTokens(n) ==
    [i \in 1..n |-> ContextTokens[Len(ContextTokens) - n + i]]

SpecParse == Init /\ [][NextParse]_vars

\* C21: truncateToCompleteSentence returns a string of at most maxLength
\* characters: the text itself when it fits, otherwise a prefix ending in a
\* period, otherwise a prefix followed by an ellipsis.
C21_FitsWithinMaxLength ==
    pOp = "truncate" =>
        /\ Len(pResult) <= pMaxLength
        /\ Len(pText) <= pMaxLength => pResult = pText
        /\ Len(pText) > pMaxLength =>
              \/ IsPrefix(pResult, pText) /\ pResult[Len(pResult)] = "."
              \/ \E p \in SeqsUpTo(SentenceChars, Len(pText)) :
                    IsPrefix(p, pText) /\ pResult = p \o Ellipsis

StripBrackets(s) == SelectSeq(s, LAMBDA x : x \notin {"[", "]"})

Occurs(word) == \E i \in 1..Len(pText) : pText[i] = word

FirstOccurring ==
    IF Occurs("RESPOND") THEN "RESPOND"
    ELSE IF Occurs("IGNORE") THEN "IGNORE"
    ELSE IF Occurs("STOP") THEN "STOP"
    ELSE NoVerdict

\* The statement of C22 as made: the first line with its brackets stripped
\* and upper-cased decides when it is exactly one of the three words,
\* otherwise the first of RESPOND, IGNORE, STOP occurring in the text.
C22_AsStated ==
    pOp = "parse" =>
        LET line == ToUpperCase(StripBrackets(StringTrim(FirstLine(pText))))
        IN  IF Len(line) = 1 /\ line[1] \in {"RESPOND", "IGNORE", "STOP"}
            THEN pVerdict = line[1]
            ELSE pVerdict = FirstOccurring

\* C22: parseShouldRespondFromText returns the first line's verdict when
\* that line, trimmed, with its first "[" and its first "]" removed and
\* upper-cased, is exactly RESPOND, IGNORE or STOP; otherwise the first of
\* RESPOND, IGNORE, STOP occurring in the whole text, and no value when none
\* occurs; it returns nothing else.
C22_FirstLineThenPriority ==
    pOp = "parse" =>
        /\ pVerdict \in {"RESPOND", "IGNORE", "STOP", NoVerdict}
        /\ LET line == MatchedLine(pText)
           IN  IF Len(line) = 1 /\ line[1] \in {"RESPOND", "IGNORE", "STOP"}
               THEN pVerdict = line[1]
               ELSE pVerdict = FirstOccurring

C22_Witness ==
    /\ pOp = "parse"
    /\ Occurs("RESPOND")
    /\ pText[1] = "["
    /\ MatchedLine(pText) = <<"STOP">>
    /\ pVerdict = "STOP"

SpecGateway == Init /\ [][NextGateway]_vars

GatewayConfigured ==
    /\ gwSettings.enabled = "true"
    /\ gwSettings.accountId # Unset
    /\ gwSettings.gatewayId # Unset

\* C23: every OpenAI- or Anthropic-routed request, of text and of object
\* generation, goes to the gateway URL built from account id, gateway id
\* and provider exactly when the flag is "true" and both ids are set, and to
\* the provider's normal endpoint otherwise.
C23_GatewayExactlyWhenConfigured ==
    gwRequest.kind # "none" =>
        gwRequest.baseURL =
            IF GatewayConfigured
            THEN "https://gateway.ai.cloudflare.com/v1/" \o gwSettings.accountId
                    \o "/" \o gwSettings.gatewayId \o "/" \o gwRequest.provider
            ELSE NormalEndpoint(gwRequest.provider)

SpecMining == Init /\ [][NextMining]_vars

\* C24: when the mining of an account is over, every post of relevance
\* above 0.5 at which no analysis and no persisting failed is persisted,
\* whatever failed at other posts of its batch or of an earlier batch.
C24_OnlyFailedPostSkipped ==
    mPc = "done" =>
        \A p \in 1..Len(mScores) :
            (mScores[p] > 5 /\ p \notin mFailed) => p \in mStored

\* C25: the candidates of a cycle are visited in ascending order of their
\* numeric id: no candidate still to be visited has a smaller id than the
\* one being handled or than one visited before it.
C25_AscendingNumericOrder ==
    /\ \A i, j \in 1..Len(cands) : i < j => cands[i] <= cands[j]
    /\ (tPc = "body" /\ Len(cands) > 1) => \A i \in 2..Len(cands) : cur <= cands[i]

\* C26: a post of the agent itself never enters the body of the candidate
\* loop past the lookup of its memory: no connection is ensured for it, no
\* thread is built or stored, no classification is run and no reply posted.
C26_OwnPostDropped ==
    \A id \in AgentTweets :
        /\ ~(tPc = "body" /\ cur = id /\ tIdx > 1)
        /\ id \notin tMemories
        /\ classified[id] = 0
        /\ replies[id] = 0

\* The scheduler runs every continuation that is ready, and every awaited
\* call settles.
SpecThread == Init /\ [][NextThread]_vars /\ WF_vars(NextThread)

\* thread[i + 1] is the post thread[i] is the parent of, the last one is the
\* starting post.
ThreadIsChain(start) ==
    /\ vThread # << >> => vThread[Len(vThread)] = start
    /\ \A i \in 1..(Len(vThread) - 1) : vParent[vThread[i + 1]] = vThread[i]

\* C27: buildConversationThread terminates on every reply graph, and the
\* thread it returns has at most maxReplies posts, no post twice, and runs
\* from the oldest ancestor reached to the starting post.
C27_TerminatesWithBoundedThread ==
    /\ [](vPc = "returned" =>
            /\ Len(vThread) <= vMaxReplies
            /\ \A i, j \in 1..Len(vThread) : i # j => vThread[i] # vThread[j]
            /\ \E start \in ThreadPosts : ThreadIsChain(start))
    /\ (vPc = "running") ~> (vPc \in {"returned", "rejected"})

C27_Witness ==
    /\ vPc = "returned"
    /\ vMaxReplies = 2
    /\ vParent[1] = 2 /\ vParent[2] = 1
    /\ vThread = <<1>>

SpecPred == Init /\ [][NextPred]_vars

\* C28: a call of createPrediction that returns, returns the id the contract
\* gave to the prediction its own transaction created, whatever other
\* predictions were confirmed between its read of predictionCount and the
\* confirmation of its transaction.
C28_ReturnsAssignedId ==
    \A call \in PredictionCalls :
        pdPc[call] = "returned" =>
            /\ pdResult[call] = pdAssigned[call]
            /\ \A id \in pdResult[call] : pdCreator[id + 1] = call

SpecOverlap == Init /\ [][NextOverlap]_vars

\* C29: also when a cycle is started while an earlier one is suspended, no
\* source post is being handled by two cycles at the same time and no
\* source post gets more than one reply.
C29_OneCycleOneReplyPerPost ==
    /\ \A a, b \in PollCycles :
          (a # b /\ Handling(a) /\ Handling(b)) => OvCur(a) # OvCur(b)
    /\ \A post \in SourcePosts : ovReplies[post] <= 1

SpecTurn == Init /\ [][NextTurn]_vars

\* C30: under every interleaving of requests, every turn that has ended
\* has its own inbound row and its own outbound row in the memories table;
\* neither has been replaced by a row of another turn or by the other row
\* of the same turn.
C30_EveryTurnKeepsBothMemories ==
    \A r \in ChatRequests :
        tnPc[r] = "ended" =>
            /\ \E row \in tnMemories : row.turn = r /\ row.kind = "inbound"
            /\ \E row \in tnMemories : row.turn = r /\ row.kind = "outbound"

====
